---- MODULE Spec2Model ----
(***************************************************************************)
(* A model of the tool functions of the aibro agents:                      *)
(*   src/src/agents/paper_agent/tools/paper_tools.py  (PAPER_TOOLS)        *)
(*   src/src/agents/code_agent/tools/file_tools.py    (FILE_TOOLS)         *)
(*   src/src/agents/code_agent/tools/bash_tools.py    (BASH_TOOLS)         *)
(*                                                                         *)
(* A str is a sequence of characters; a file holds a sequence of bytes.    *)
(* Every tool is an operator from the state it reads and its arguments to  *)
(* an outcome, and an action that applies the operator.                    *)
(***************************************************************************)
EXTENDS Integers, Sequences, FiniteSets, TLC

VARIABLES
    fs,       \* the filesystem: absolute path -> node
    cwd,      \* the process's current working directory (os.getcwd / os.chdir)
    cwdGone,  \* the directory the process stands in has been unlinked
    env,      \* the process's environment table (os.environ)
    proc,     \* the child process of the subprocess call in progress
    call,     \* the tool call in progress (a subprocess tool blocks on its child)
    ret       \* the outcome of the last finished tool call

vars == <<fs, cwd, cwdGone, env, proc, call, ret>>

----------------------------------------------------------------------------
(* Characters and text.                                                    *)

LF == "LF"
CR == "CR"
\* A byte that is not valid UTF-8.
BAD == "BAD"

Whitespace == {" ", LF, CR}

\* str.lower() on the characters of the model's alphabet.
LowerChar(c) == CASE c = "A" -> "a" [] c = "B" -> "b" [] OTHER -> c

\* A lower() that leaves every character as it is.
Lower_Identity(s) == s

Lower(s) == [i \in 1..Len(s) |-> LowerChar(s[i])]

\* a in b (Python's substring test on str).
IsSubstr(a, b) ==
    \E i \in 0..(Len(b) - Len(a)) : SubSeq(b, i + 1, i + Len(a)) = a

\* str.strip(): leading and trailing whitespace removed.
RECURSIVE LStrip(_)
LStrip(s) ==
    IF s # <<>> /\ Head(s) \in Whitespace THEN LStrip(Tail(s)) ELSE s

RECURSIVE RStrip(_)
RStrip(s) ==
    IF s # <<>> /\ s[Len(s)] \in Whitespace
    THEN RStrip(SubSeq(s, 1, Len(s) - 1)) ELSE s

Strip(s) == RStrip(LStrip(s))

\* The position of the first line break of s at or after i, 0 when none.
RECURSIVE FirstBreak(_, _)
FirstBreak(s, i) ==
    IF i > Len(s) THEN 0
    ELSE IF s[i] \in {LF, CR} THEN i
    ELSE FirstBreak(s, i + 1)

\* The length of the line break at position i of s: "\r\n" is one break.
BreakLen(s, i) ==
    IF s[i] = CR /\ i < Len(s) /\ s[i + 1] = LF THEN 2 ELSE 1

\* str.splitlines(): the lines without their line breaks; no last empty line.
RECURSIVE SplitLines(_)
SplitLines(s) ==
    IF s = <<>> THEN <<>>
    ELSE LET i == FirstBreak(s, 1) IN
         IF i = 0 THEN <<s>>
         ELSE <<SubSeq(s, 1, i - 1)>>
              \o SplitLines(SubSeq(s, i + BreakLen(s, i), Len(s)))

\* file.readlines() on decoded text, in which every line break is "\n": the
\* lines, each with its "\n" kept; the last line may have none.
RECURSIVE ReadLines(_)
ReadLines(s) ==
    IF s = <<>> THEN <<>>
    ELSE LET i == FirstBreak(s, 1) IN
         IF i = 0 THEN <<s>>
         ELSE <<SubSeq(s, 1, i)>> \o ReadLines(SubSeq(s, i + 1, Len(s)))

\* '\n'.join(lines)
RECURSIVE JoinLines(_)
JoinLines(ls) ==
    IF ls = <<>> THEN <<>>
    ELSE IF Len(ls) = 1 THEN ls[1]
    ELSE ls[1] \o <<LF>> \o JoinLines(Tail(ls))

\* The text-mode decoder of open(path, 'r', encoding='utf-8'): universal
\* newlines, "\r\n" and "\r" both read as "\n".
RECURSIVE TranslateNewlines(_)
TranslateNewlines(b) ==
    IF b = <<>> THEN <<>>
    ELSE IF b[1] = CR THEN
        <<LF>> \o TranslateNewlines(SubSeq(b, BreakLen(b, 1) + 1, Len(b)))
    ELSE <<b[1]>> \o TranslateNewlines(Tail(b))

IsUtf8(b) == \A i \in 1..Len(b) : b[i] # BAD

\* An encoder that writes "\n" as "\r\n".
RECURSIVE Encode_CRLF(_)
Encode_CRLF(s) ==
    IF s = <<>> THEN <<>>
    ELSE IF s[1] = LF THEN <<CR, LF>> \o Encode_CRLF(Tail(s))
    ELSE <<s[1]>> \o Encode_CRLF(Tail(s))

\* The text-mode encoder of open(path, 'w', encoding='utf-8') on POSIX: "\n"
\* is written as it is.
Encode(s) == s

----------------------------------------------------------------------------
(* Paths and the filesystem.                                               *)

\* File and directory names; an absolute path is the sequence of its names,
\* <<>> the root directory.  The filesystem of the model has the places /, /d,
\* /f and /d/f.
Names == {"d", "f"}

AbsPaths == {<<>>, <<"d">>, <<"f">>, <<"d", "f">>}

\* A path argument, as a tool receives it: absolute ("/d/f") or relative to the
\* working directory ("f"); the relative path of no names is the empty str.
AbsArg(comps) == [abs |-> TRUE, comps |-> comps]
RelArg(comps) == [abs |-> FALSE, comps |-> comps]
EmptyPath == RelArg(<<>>)

NoNode == [kind |-> "none", data |-> <<>>]
DirNode == [kind |-> "dir", data |-> <<>>]
FileNode(bytes) == [kind |-> "file", data |-> bytes]

\* The outcome of a tool call: a str returned (which return statement, and what
\* it holds), or an exception that leaves the function.  TLC compares records
\* field by field in the order the field names first occur in the module:
\* tool, kind and tag are named here ahead of val, so that two outcomes of
\* different shapes are told apart before their values are compared.
Returns(tool, tag, val) ==
    [tool |-> tool, kind |-> "str", tag |-> tag, val |-> val]
Propagates(tool, e) ==
    [tool |-> tool, kind |-> "raise", tag |-> e, val |-> <<>>]

\* What a possibly raising expression gives: its value, or the exception.
Val(v) == [exc |-> "", val |-> v]
Raise(e) == [exc |-> e, val |-> <<>>]

\* The absolute path a path argument names, from the working directory.
Resolve(p) == IF p.abs THEN p.comps ELSE cwd \o p.comps

\* A relative path cannot be followed from an unlinked working directory.
Reachable(p) == p # EmptyPath /\ (p.abs \/ ~cwdGone) /\ Resolve(p) \in AbsPaths

NodeAt(p) == IF Reachable(p) THEN fs[Resolve(p)] ELSE NoNode

\* os.path.exists, os.path.isdir, os.path.isfile
exists(p) == NodeAt(p).kind # "none"
isdir(p) == NodeAt(p).kind = "dir"
isfile(p) == NodeAt(p).kind = "file"

\* os.path.dirname: "/d/f" -> "/d", "/f" -> "/", "f" -> "".
dirname(p) ==
    IF p.comps = <<>> THEN p
    ELSE [abs |-> p.abs, comps |-> SubSeq(p.comps, 1, Len(p.comps) - 1)]

\* The path leads through a file: the operating system refuses it (ENOTDIR).
ThroughFile(p) ==
    /\ p # EmptyPath
    /\ p.abs \/ ~cwdGone
    /\ LET a == Resolve(p) IN
       \E n \in 1..(Len(a) - 1) :
           SubSeq(a, 1, n) \in AbsPaths /\ fs[SubSeq(a, 1, n)].kind = "file"

\* open(path, 'r', encoding='utf-8') and f.read(): the decoded text.
ReadText(p) ==
    IF ThroughFile(p) THEN Raise("NotADirectoryError")
    ELSE IF ~exists(p) THEN Raise("FileNotFoundError")
    ELSE IF isdir(p) THEN Raise("IsADirectoryError")
    ELSE IF ~IsUtf8(NodeAt(p).data) THEN Raise("UnicodeDecodeError")
    ELSE Val(TranslateNewlines(NodeAt(p).data))

\* Python's exception classes: which an except clause for class c catches.
Catches(c, e) ==
    \/ c = "Exception"
    \/ c = e
    \/ c = "OSError" /\ e \in {"FileNotFoundError", "IsADirectoryError",
                               "NotADirectoryError", "FileExistsError",
                               "PermissionError"}
    \/ c = "ValueError" /\ e = "UnicodeDecodeError"

\* A handler that catches the operating system's errors only.
Try_OSErrorOnly(tool, body, class) ==
    IF body.exc = "" THEN body.val
    ELSE IF Catches("OSError", body.exc) THEN Returns(tool, "error", body.exc)
    ELSE Propagates(tool, body.exc)

\* try: body / except <class> as e: return f"Error <doing X>: {str(e)}"
Try(tool, body, class) ==
    IF body.exc = "" THEN body.val
    ELSE IF Catches(class, body.exc) THEN Returns(tool, "error", body.exc)
    ELSE Propagates(tool, body.exc)

\* An optional argument: None (of a str, of an int), or a value.
None == [some |-> FALSE, v |-> <<>>]
NoneInt == [some |-> FALSE, v |-> 0]
Some(x) == [some |-> TRUE, v |-> x]

----------------------------------------------------------------------------
(* file_tools.py                                                           *)

IsPrefix(a, b) == Len(a) <= Len(b) /\ SubSeq(b, 1, Len(a)) = a

\* The node a path argument names in filesystem f.
NodeIn(f, p) == IF Reachable(p) THEN f[Resolve(p)] ELSE NoNode

\* The names in directory a of f (os.listdir).
Children(f, a) ==
    {n \in Names : a \o <<n>> \in AbsPaths /\ f[a \o <<n>>].kind # "none"}

\* Why the operating system cannot reach the place path p names in f: "" when
\* every directory on the way is there.
WalkError(f, p) ==
    IF p = EmptyPath \/ (~p.abs /\ cwdGone) THEN "FileNotFoundError"
    ELSE LET a == Resolve(p)
             off == {n \in 0..(Len(a) - 1) : f[SubSeq(a, 1, n)].kind # "dir"}
         IN  IF off = {} THEN ""
             ELSE IF \E n \in off : f[SubSeq(a, 1, n)].kind = "file"
                  THEN "NotADirectoryError"
             ELSE "FileNotFoundError"

\* os.makedirs(p, exist_ok=exist_ok): the exception, or the filesystem with p
\* and every missing directory on the way to it made.
MakeDirs(f, p, exist_ok) ==
    IF p = EmptyPath \/ (~p.abs /\ cwdGone)
    THEN [exc |-> "FileNotFoundError", fs |-> f]
    ELSE IF WalkError(f, p) = "NotADirectoryError"
    THEN [exc |-> "NotADirectoryError", fs |-> f]
    ELSE IF NodeIn(f, p).kind = "file" \/ (NodeIn(f, p).kind = "dir" /\ ~exist_ok)
    THEN [exc |-> "FileExistsError", fs |-> f]
    ELSE [exc |-> "",
          fs |-> [b \in AbsPaths |->
                    IF IsPrefix(b, Resolve(p)) THEN DirNode ELSE f[b]]]

\* open(p, 'w'): why it fails, "" when it opens.
OpenWriteError(f, p) ==
    IF WalkError(f, p) # "" THEN WalkError(f, p)
    ELSE IF NodeIn(f, p).kind = "dir" THEN "IsADirectoryError"
    ELSE ""

\* read_file: return f.read()
read_file(file_path) ==
    LET text == ReadText(file_path) IN
    Try("read_file",
        [exc |-> text.exc, val |-> Returns("read_file", "content", text.val)],
        "Exception")

\* write_file's body: os.makedirs(os.path.dirname(file_path), exist_ok=True),
\* then open(file_path, 'w') and f.write(content).
write_file_run(file_path, content) ==
    LET made == MakeDirs(fs, dirname(file_path), TRUE) IN
    IF made.exc # "" THEN made
    ELSE IF OpenWriteError(made.fs, file_path) # ""
    THEN [exc |-> OpenWriteError(made.fs, file_path), fs |-> made.fs]
    ELSE [exc |-> "",
          fs |-> [made.fs EXCEPT
                    ![Resolve(file_path)] = FileNode(Encode(content))]]

write_file(file_path, content) ==
    Try("write_file",
        [exc |-> write_file_run(file_path, content).exc,
         val |-> Returns("write_file", "ok", file_path)],
        "Exception")

\* list_directory: the [DIR] and [FILE] entries with their sizes.
list_directory(dir_path) ==
    IF ~exists(dir_path) THEN Returns("list_directory", "not_exist", dir_path)
    ELSE IF ~isdir(dir_path) THEN Returns("list_directory", "not_dir", dir_path)
    ELSE LET a == Resolve(dir_path)
             items == Children(fs, a)
    IN  IF items = {} THEN Returns("list_directory", "empty", dir_path)
        ELSE Returns("list_directory", "contents",
                 [dirs |-> {n \in items : fs[a \o <<n>>].kind = "dir"},
                  files |-> {<<n, Len(fs[a \o <<n>>].data)>> :
                               n \in {m \in items : fs[a \o <<m>>].kind = "file"}}])

\* create_directory: os.makedirs(dir_path, exist_ok=True)
create_directory(dir_path) ==
    Try("create_directory",
        [exc |-> MakeDirs(fs, dir_path, TRUE).exc,
         val |-> Returns("create_directory", "ok", dir_path)],
        "Exception")

\* A removal that takes the entry a itself and leaves what is under it.
RemoveTree_TopOnly(f, a) == [f EXCEPT ![a] = NoNode]

\* shutil.rmtree(a) and os.remove(a): a and everything under it is gone.
RemoveTree(f, a) ==
    [b \in AbsPaths |-> IF IsPrefix(a, b) THEN NoNode ELSE f[b]]

\* delete_file_or_path's body.  Removing the directory the process stands in
\* (or one above it) leaves the process in an unlinked directory.
delete_file_or_path_run(path) ==
    IF ~exists(path) THEN [exc |-> "", fs |-> fs, cwdGone |-> cwdGone]
    ELSE [exc |-> "", fs |-> RemoveTree(fs, Resolve(path)),
          cwdGone |-> cwdGone \/ IsPrefix(Resolve(path), cwd)]

delete_file_or_path(path) ==
    Try("delete_file_or_path",
        [exc |-> delete_file_or_path_run(path).exc,
         val |-> IF ~exists(path)
                 THEN Returns("delete_file_or_path", "not_exist", path)
                 ELSE IF isdir(path)
                 THEN Returns("delete_file_or_path", "deleted_dir", path)
                 ELSE Returns("delete_file_or_path", "deleted_file", path)],
        "Exception")

\* os.path.join(p, name) and the last name of p (shutil._basename).
join(p, name) == [abs |-> p.abs, comps |-> p.comps \o <<name>>]
basename(p) == p.comps[Len(p.comps)]

\* The part of absolute path b below its prefix a.
Below(a, b) == SubSeq(b, Len(a) + 1, Len(b))

\* shutil.copytree(src, dst): os.makedirs(dst) first, which refuses a dst that
\* exists, then every entry of src is copied to the same place under dst.
CopyTree(f, src, dst) ==
    LET made == MakeDirs(f, dst, FALSE)
        a == Resolve(src)
        d == Resolve(dst)
    IN  IF made.exc # "" THEN made
        ELSE [exc |-> "",
              fs |-> [b \in AbsPaths |->
                        IF /\ IsPrefix(d, b)
                           /\ a \o Below(d, b) \in AbsPaths
                           /\ f[a \o Below(d, b)].kind # "none"
                        THEN f[a \o Below(d, b)]
                        ELSE made.fs[b]]]

\* shutil.copy2(src, dst) of a file: into dst when dst is a directory; the
\* bytes are copied as they are.
CopyFile(f, src, dst) ==
    LET target == IF NodeIn(f, dst).kind = "dir" THEN join(dst, basename(src))
                  ELSE dst
    IN  IF Reachable(target) /\ Resolve(target) = Resolve(src)
        THEN [exc |-> "SameFileError", fs |-> f]
        ELSE IF OpenWriteError(f, target) # ""
        THEN [exc |-> OpenWriteError(f, target), fs |-> f]
        ELSE [exc |-> "",
              fs |-> [f EXCEPT ![Resolve(target)] = f[Resolve(src)]]]

\* copy_file_or_path's body.
copy_file_or_path_run(src, dst) ==
    IF ~exists(src) THEN [exc |-> "", fs |-> fs]
    ELSE IF isdir(src) THEN CopyTree(fs, src, dst)
    ELSE CopyFile(fs, src, dst)

copy_file_or_path(src, dst) ==
    Try("copy_file_or_path",
        [exc |-> copy_file_or_path_run(src, dst).exc,
         val |-> IF ~exists(src)
                 THEN Returns("copy_file_or_path", "not_exist", src)
                 ELSE IF isdir(src)
                 THEN Returns("copy_file_or_path", "copied_dir", <<src, dst>>)
                 ELSE Returns("copy_file_or_path", "copied_file", <<src, dst>>)],
        "Exception")

\* os.rename(src, dst) on POSIX: why it fails, "" when it renames.
RenameError(f, src, dst) ==
    IF WalkError(f, dst) # "" THEN WalkError(f, dst)
    ELSE IF Resolve(dst) = Resolve(src) THEN ""
    ELSE IF NodeIn(f, src).kind = "dir" THEN
        IF IsPrefix(Resolve(src), Resolve(dst)) THEN "OSError"
        ELSE IF NodeIn(f, dst).kind = "file" THEN "NotADirectoryError"
        ELSE IF Children(f, Resolve(dst)) # {} THEN "OSError"
        ELSE ""
    ELSE IF NodeIn(f, dst).kind = "dir" THEN "IsADirectoryError"
    ELSE ""

\* A move that leaves the tree at a where it was.
MoveTree_KeepsSource(f, a, d) ==
    [b \in AbsPaths |->
        IF IsPrefix(d, b) /\ a \o Below(d, b) \in AbsPaths
        THEN f[a \o Below(d, b)]
        ELSE f[b]]

\* The tree at absolute path a moved to absolute path d.
MoveTree(f, a, d) ==
    IF a = d THEN f
    ELSE [b \in AbsPaths |->
            IF IsPrefix(d, b) THEN
                IF a \o Below(d, b) \in AbsPaths THEN f[a \o Below(d, b)]
                ELSE NoNode
            ELSE IF IsPrefix(a, b) THEN NoNode
            ELSE f[b]]

\* shutil.move(src, dst): into dst when dst is a directory; os.rename, and
\* when that fails a copy followed by the removal of src.
Move(f, src, dst) ==
    LET into == NodeIn(f, dst).kind = "dir" /\ Resolve(dst) # Resolve(src)
        real_dst == IF into THEN join(dst, basename(src)) ELSE dst
    IN  IF into /\ NodeIn(f, real_dst).kind # "none"
        THEN [exc |-> "Error", fs |-> f]
        ELSE IF RenameError(f, src, real_dst) = ""
        THEN [exc |-> "", fs |-> MoveTree(f, Resolve(src), Resolve(real_dst))]
        ELSE IF NodeIn(f, src).kind = "dir" THEN
            \* _destinsrc(src, dst)
            IF Reachable(dst) /\ IsPrefix(Resolve(src), Resolve(dst))
            THEN [exc |-> "Error", fs |-> f]
            ELSE LET copied == CopyTree(f, src, real_dst) IN
                 IF copied.exc # "" THEN copied
                 ELSE [exc |-> "", fs |-> RemoveTree(copied.fs, Resolve(src))]
        ELSE LET copied == CopyFile(f, src, real_dst) IN
             IF copied.exc # "" THEN copied
             ELSE [exc |-> "", fs |-> RemoveTree(copied.fs, Resolve(src))]

\* move_file_or_path's body.
move_file_or_path_run(src, dst) ==
    IF ~exists(src) THEN [exc |-> "", fs |-> fs]
    ELSE Move(fs, src, dst)

move_file_or_path(src, dst) ==
    Try("move_file_or_path",
        [exc |-> move_file_or_path_run(src, dst).exc,
         val |-> IF ~exists(src)
                 THEN Returns("move_file_or_path", "not_exist", src)
                 ELSE Returns("move_file_or_path", "moved", <<src, dst>>)],
        "Exception")

\* get_file_info: type and size, and for a file its parent directory.
get_file_info(file_path) ==
    IF ~exists(file_path) THEN Returns("get_file_info", "not_exist", file_path)
    ELSE Returns("get_file_info", "info",
             [type |-> IF isdir(file_path) THEN "Directory" ELSE "File",
              size |-> Len(NodeAt(file_path).data)])

\* Path(dir_path).rglob(pattern) for the patterns "*" (every name), a plain
\* name, and "" (the directory itself and every directory under it).
RGlob(a, pattern) ==
    IF pattern = ""
    THEN Val({b \in AbsPaths : IsPrefix(a, b) /\ fs[b].kind = "dir"})
    ELSE Val({b \in AbsPaths :
                /\ IsPrefix(a, b) /\ b # a /\ fs[b].kind # "none"
                /\ pattern = "*" \/ b[Len(b)] = pattern})

search_files(dir_path, pattern) ==
    IF ~exists(dir_path) THEN Returns("search_files", "not_exist", dir_path)
    ELSE IF ~isdir(dir_path) THEN Returns("search_files", "not_dir", dir_path)
    ELSE LET matches == RGlob(Resolve(dir_path), pattern) IN
        IF matches.exc # "" THEN Try("search_files", matches, "Exception")
        ELSE IF matches.val = {}
        THEN Returns("search_files", "no_match", pattern)
        ELSE Returns("search_files", "matches",
                 {[path |-> b, kind |-> fs[b].kind, size |-> Len(fs[b].data)] :
                     b \in matches.val})

\* os.getcwd(): fails in a directory that has been unlinked.
GetCwd == IF cwdGone THEN Raise("FileNotFoundError") ELSE Val(cwd)

get_current_working_directory ==
    Try("get_current_working_directory",
        [exc |-> GetCwd.exc,
         val |-> Returns("get_current_working_directory", "cwd", GetCwd.val)],
        "Exception")

\* os.chdir(dir_path): why it fails, "" when it changes the directory.
ChdirError(dir_path) ==
    IF WalkError(fs, dir_path) # "" THEN WalkError(fs, dir_path)
    ELSE IF ~exists(dir_path) THEN "FileNotFoundError"
    ELSE IF ~isdir(dir_path) THEN "NotADirectoryError"
    ELSE ""

change_working_directory(dir_path) ==
    Try("change_working_directory",
        [exc |-> ChdirError(dir_path),
         val |-> Returns("change_working_directory", "changed",
                         Resolve(dir_path))],
        "Exception")

----------------------------------------------------------------------------
(* paper_tools.py: read_markdown_sections                                  *)

\* The number of characters of s, from position i on, that are in set S.
RECURSIVE RunLength(_, _, _)
RunLength(s, i, S) ==
    IF i <= Len(s) /\ s[i] \in S THEN 1 + RunLength(s, i + 1, S) ELSE 0

\* HeaderMatch with the '#' run allowed up to 7 (a wrong repeat count).
HeaderMatch_SevenHashes(line) ==
    LET hashes == RunLength(line, 1, {"#"})
        blanks == RunLength(line, hashes + 1, Whitespace)
        rest == SubSeq(line, hashes + blanks + 1, Len(line))
    IN  IF hashes < 1 \/ hashes > 7 \/ blanks < 1 THEN
            [ok |-> FALSE, level |-> 0, text |-> <<>>]
        ELSE IF rest # <<>> THEN
            [ok |-> TRUE, level |-> hashes, text |-> rest]
        ELSE IF blanks >= 2 THEN
            [ok |-> TRUE, level |-> hashes, text |-> <<line[Len(line)]>>]
        ELSE [ok |-> FALSE, level |-> 0, text |-> <<>>]

\* re.match(r'^(#{1,6})\s+(.+)$', line): whether it matches, len(group(1)) and
\* group(2).  \s+ takes every blank after the '#' run and gives the last one
\* back to .+ when nothing else is left for it.
HeaderMatch(line) ==
    LET hashes == RunLength(line, 1, {"#"})
        blanks == RunLength(line, hashes + 1, Whitespace)
        rest == SubSeq(line, hashes + blanks + 1, Len(line))
    IN  IF hashes < 1 \/ hashes > 6 \/ blanks < 1 THEN
            [ok |-> FALSE, level |-> 0, text |-> <<>>]
        ELSE IF rest # <<>> THEN
            [ok |-> TRUE, level |-> hashes, text |-> rest]
        ELSE IF blanks >= 2 THEN
            [ok |-> TRUE, level |-> hashes, text |-> <<line[Len(line)]>>]
        ELSE [ok |-> FALSE, level |-> 0, text |-> <<>>]

\* list.index(x): the position (0-based) of the first element equal to x.
RECURSIVE IndexOf(_, _, _)
IndexOf(ls, x, i) ==
    IF ls[i] = x THEN i - 1 ELSE IndexOf(ls, x, i + 1)

\* The line number the scan records for the header at position i of lines.
HeaderLine(lines, i) == IndexOf(lines, lines[i], 1) + 1

\* A section as the scan appends it: (current_section, '\n'.join(content)).
Section(cur, content) ==
    [name |-> cur.name, level |-> cur.level, line |-> cur.line,
     text |-> JoinLines(content)]

\* One turn of "for line in lines" on line i, from the loop's variables st.
ScanLine(lines, i, st) ==
    LET m == HeaderMatch(lines[i]) IN
    IF m.ok THEN
        [sections |-> IF st.cur.some
                      THEN Append(st.sections, Section(st.cur, st.content))
                      ELSE st.sections,
         cur |-> [some |-> TRUE, name |-> Strip(m.text), level |-> m.level,
                  line |-> HeaderLine(lines, i)],
         content |-> <<lines[i]>>]
    ELSE
        \* in a section or before the first header, the line is appended
        [st EXCEPT !.content = Append(st.content, lines[i])]

RECURSIVE ScanFrom(_, _, _)
ScanFrom(lines, i, st) ==
    IF i > Len(lines) THEN st
    ELSE ScanFrom(lines, i + 1, ScanLine(lines, i, st))

\* The list `sections` once the loop and "Save last section" are done.
FindSections(lines) ==
    LET \* current_section = None
        none == [some |-> FALSE, name |-> <<>>, level |-> 0, line |-> 0]
        st == ScanFrom(lines, 1,
                  [sections |-> <<>>, cur |-> none, content |-> <<>>])
    IN  IF st.cur.some
        THEN Append(st.sections, Section(st.cur, st.content))
        ELSE st.sections

\* FirstMatch with the names compared as they are (the .lower() calls left out).
RECURSIVE FirstMatch_CaseSensitive(_, _, _)
FirstMatch_CaseSensitive(sections, section_name, i) ==
    IF i > Len(sections) THEN 0
    ELSE IF /\ sections[i].name # <<>>
            /\ IsSubstr(section_name, sections[i].name)
         THEN i
    ELSE FirstMatch_CaseSensitive(sections, section_name, i + 1)

\* The first section, in list order, that the lookup's test accepts; 0 if none.
RECURSIVE FirstMatch(_, _, _)
FirstMatch(sections, section_name, i) ==
    IF i > Len(sections) THEN 0
    ELSE IF /\ sections[i].name # <<>>
            /\ IsSubstr(Lower(section_name), Lower(sections[i].name))
         THEN i
    ELSE FirstMatch(sections, section_name, i + 1)

\* A return of read_markdown_sections, with the list `sections` it was made from.
SectionsReturn(tag, val, section_name, sections) ==
    [tool |-> "read_markdown_sections", kind |-> "str", tag |-> tag,
     val |-> val, section_name |-> section_name, sections |-> sections]

read_markdown_sections_body(file_path, section_name) ==
    IF ~exists(file_path) THEN Val(SectionsReturn("not_exist", <<>>, section_name, <<>>))
    ELSE LET content == ReadText(file_path) IN
    IF content.exc # "" THEN content
    ELSE LET sections == FindSections(SplitLines(content.val)) IN
    IF ~section_name.some THEN
        \* "[Preamble] (Lines 1-n)" when the first entry has no name, then one
        \* "- name (Line n)" per entry that has a name
        Val(SectionsReturn("list",
                [preamble |-> sections # <<>> /\ sections[1].name = <<>>,
                 items |-> SelectSeq(sections,
                                     LAMBDA sec : sec.name # <<>>)],
                section_name, sections))
    ELSE LET k == FirstMatch(sections, section_name.v, 1) IN
        IF k = 0
        THEN Val(SectionsReturn("not_found", <<>>, section_name, sections))
        ELSE Val(SectionsReturn("section", sections[k], section_name, sections))

read_markdown_sections(file_path, section_name) ==
    Try("read_markdown_sections",
        read_markdown_sections_body(file_path, section_name), "Exception")

----------------------------------------------------------------------------
(* paper_tools.py: read_markdown_pages                                     *)

Min(a, b) == IF a <= b THEN a ELSE b
Max(a, b) == IF a >= b THEN a ELSE b

\* Python's a // b for b # 0: the quotient rounded towards minus infinity.
FloorDiv(a, b) == IF b > 0 THEN a \div b ELSE (0 - a) \div (0 - b)

\* Python's ls[a:b]: a negative index counts from the end, and both are
\* clamped to the list.
PySlice(ls, a, b) ==
    LET n == Len(ls)
        lo == IF a < 0 THEN Max(a + n, 0) ELSE Min(a, n)
        hi == IF b < 0 THEN Max(b + n, 0) ELSE Min(b, n)
    IN  SubSeq(ls, lo + 1, hi)

\* TotalPages rounding down: total_lines // lines_per_page.
TotalPages_Floor(total_lines, lines_per_page) ==
    IF lines_per_page = 0 THEN Raise("ZeroDivisionError")
    ELSE Val(FloorDiv(total_lines, lines_per_page))

\* total_pages = (total_lines + lines_per_page - 1) // lines_per_page
TotalPages(total_lines, lines_per_page) ==
    IF lines_per_page = 0 THEN Raise("ZeroDivisionError")
    ELSE Val(FloorDiv(total_lines + lines_per_page - 1, lines_per_page))

\* PageStartIdx taking the page number as 0-based: page_num * lines_per_page.
PageStartIdx_ZeroBased(page_num, lines_per_page) == page_num * lines_per_page

\* start_idx = (page_num - 1) * lines_per_page
PageStartIdx(page_num, lines_per_page) == (page_num - 1) * lines_per_page

\* end_idx = min(page_num * lines_per_page, total_lines)
PageEndIdx(page_num, lines_per_page, total_lines) ==
    Min(page_num * lines_per_page, total_lines)

\* f"{first + i:4d} | {line}" for each line: the number and the line's text.
Numbered(ls, first) ==
    [i \in 1..Len(ls) |-> [num |-> first + i - 1, text |-> ls[i]]]

PagesReturn(tag, val, page_num, lines_per_page) ==
    [tool |-> "read_markdown_pages", kind |-> "str", tag |-> tag, val |-> val,
     page_num |-> page_num, lines_per_page |-> lines_per_page]

read_markdown_pages_body(file_path, page_num, lines_per_page) ==
    IF ~exists(file_path)
    THEN Val(PagesReturn("not_exist", <<>>, page_num, lines_per_page))
    ELSE LET text == ReadText(file_path) IN
    IF text.exc # "" THEN text
    ELSE LET lines == ReadLines(text.val)
             total_lines == Len(lines)
             pages == TotalPages(total_lines, lines_per_page)
    IN
    IF pages.exc # "" THEN pages
    ELSE LET total_pages == pages.val IN
    IF ~page_num.some THEN
        \* "Page i: Lines start-end" for each page
        Val(PagesReturn("meta",
                [total_lines |-> total_lines, total_pages |-> total_pages,
                 pages |-> [i \in 1..total_pages |->
                              [start_line |-> (i - 1) * lines_per_page + 1,
                               end_line |-> Min(i * lines_per_page,
                                                total_lines)]]],
                page_num, lines_per_page))
    ELSE IF page_num.v < 1 \/ page_num.v > total_pages THEN
        Val(PagesReturn("out_of_range", [total_pages |-> total_pages],
                        page_num, lines_per_page))
    ELSE LET start_idx == PageStartIdx(page_num.v, lines_per_page)
             end_idx == PageEndIdx(page_num.v, lines_per_page, total_lines)
             start_line == start_idx + 1
             page_lines == PySlice(lines, start_idx, end_idx)
    IN  Val(PagesReturn("page",
                [total_lines |-> total_lines, total_pages |-> total_pages,
                 start_line |-> start_line, end_line |-> end_idx,
                 lines |-> Numbered(page_lines, start_line)],
                page_num, lines_per_page))

read_markdown_pages(file_path, page_num, lines_per_page) ==
    Try("read_markdown_pages",
        read_markdown_pages_body(file_path, page_num, lines_per_page),
        "Exception")

\* read_markdown_lines' body.  range(...)[0] fails on an empty selection.
read_markdown_lines_body(file_path, start_line, end_line) ==
    IF ~exists(file_path)
    THEN Val(Returns("read_markdown_lines", "not_exist", file_path))
    ELSE LET text == ReadText(file_path) IN
    IF text.exc # "" THEN text
    ELSE LET lines == ReadLines(text.val)
             total_lines == Len(lines)
             start_idx == Max(0, start_line - 1)
             end_idx == IF end_line.some THEN Min(total_lines, end_line.v)
                        ELSE total_lines
             selected_lines == PySlice(lines, start_idx, end_idx)
    IN
    IF start_idx >= total_lines
    THEN Val(Returns("read_markdown_lines", "beyond", total_lines))
    ELSE IF selected_lines = <<>> THEN Raise("IndexError")
    ELSE Val(Returns("read_markdown_lines", "lines",
                 [first |-> start_line,
                  last |-> start_line + Len(selected_lines) - 1,
                  total_lines |-> total_lines,
                  lines |-> Numbered(selected_lines, start_line)]))

read_markdown_lines(file_path, start_line, end_line) ==
    Try("read_markdown_lines",
        read_markdown_lines_body(file_path, start_line, end_line), "Exception")

\* The context of the match at line i (0-based): the lines around it, each
\* with its number, the matching one marked ">>>".
MatchContext(lines, i, context_lines) ==
    LET start_line == Max(0, i - context_lines)
        end_line == Min(Len(lines), i + context_lines + 1)
        context == PySlice(lines, start_line, end_line)
    IN  [line |-> i + 1,
         context |-> [j \in 1..Len(context) |->
                        [num |-> start_line + j,
                         marked |-> j - 1 = i - start_line,
                         text |-> context[j]]]]

search_markdown_content_body(file_path, search_term, context_lines) ==
    IF ~exists(file_path)
    THEN Val(Returns("search_markdown_content", "not_exist", file_path))
    ELSE LET text == ReadText(file_path) IN
    IF text.exc # "" THEN text
    ELSE LET lines == ReadLines(text.val)
             hits == SelectSeq([i \in 1..Len(lines) |-> i - 1],
                         LAMBDA i : IsSubstr(Lower(search_term),
                                             Lower(lines[i + 1])))
             matches == [k \in 1..Len(hits) |->
                           MatchContext(lines, hits[k], context_lines)]
    IN  IF matches = <<>>
        THEN Val(Returns("search_markdown_content", "no_match", search_term))
        ELSE Val(Returns("search_markdown_content", "matches", matches))

search_markdown_content(file_path, search_term, context_lines) ==
    Try("search_markdown_content",
        search_markdown_content_body(file_path, search_term, context_lines),
        "Exception")

----------------------------------------------------------------------------
(* bash_tools.py                                                           *)

\* timeout=30 of subprocess.run, timeout=10 of process.communicate
CommandTimeout == 30
InteractiveTimeout == 10

\* The command strings of the model: a plain command, the empty string, an
\* unbalanced quote (shlex.split refuses it) and a string with a NUL character
\* (subprocess refuses it).
Commands == {"ls", "", "'", "NUL"}

\* subprocess.Popen(command, shell=True, ...): the exception it raises before
\* any child exists.  A fork can fail whatever the command (os_fails).
SpawnError(command, os_fails) ==
    IF command = "NUL" THEN "ValueError"
    ELSE IF os_fails THEN "OSError"
    ELSE ""

\* How a child can end by itself: its return code and the bytes it wrote
\* (nothing, a line of text, a byte that is not UTF-8).
Exits ==
    [returncode : {0, 2},
     stdout : {<<>>, <<"o", LF>>, <<BAD>>},
     stderr : {<<>>, <<"e", LF>>, <<BAD>>}]

\* The child just started, and whether the tool waits for it with a timeout.
\* With shell=True the child is the shell (/bin/sh -c command); the shell
\* either becomes the command or runs it as a process of its own
\* (shell_forks), which is the shell's choice.
Running(tool, command, timed, timeout) ==
    [state |-> "running", tool |-> tool, command |-> command,
     timed |-> timed, timeout |-> timeout, elapsed |-> 0,
     shell_forks |-> FALSE]

\* Popen.kill() signals the child only: a command the shell runs as a process
\* of its own goes on running when the shell has been killed.
CommandSurvives(p) == p.state = "killed" /\ p.shell_forks

\* The return of execute_command, execute_command_with_cwd and
\* execute_interactive_command once the child has ended: text=True decodes
\* what the child wrote (an exception when it is not UTF-8), then the output
\* is put together from f-strings, each a literal followed by a value.
ExitReturn(tool, args, exit) ==
    IF ~IsUtf8(exit.stdout) \/ ~IsUtf8(exit.stderr)
    THEN Try(tool, Raise("UnicodeDecodeError"), "Exception")
    ELSE
    LET stdout == TranslateNewlines(exit.stdout)
        stderr == TranslateNewlines(exit.stderr)
        str(n) == <<(<<"0", "1", "2">>)[n + 1]>>
        out == IF stdout # <<>>
               THEN <<[lit |-> "STDOUT:\n", arg |-> stdout]>> ELSE <<>>
        err == IF stderr # <<>>
               THEN <<[lit |-> "\nSTDERR:\n", arg |-> stderr]>> ELSE <<>>
        none == IF stdout = <<>> /\ stderr = <<>>
                THEN <<[lit |-> IF tool = "execute_interactive_command"
                                THEN "Command executed with no output"
                                ELSE "Command executed successfully with no output",
                        arg |-> <<>>]>>
                ELSE <<>>
    IN  Returns(tool, "exit",
            [in_directory |-> IF tool = "execute_command_with_cwd"
                              THEN <<args.working_dir>> ELSE <<>>,
             output |-> out \o err \o none \o
                        <<[lit |-> "\n\nExit code: ",
                           arg |-> str(exit.returncode)]>>])

\* except subprocess.TimeoutExpired of execute_command and
\* execute_command_with_cwd: subprocess.run has killed the child and waited
\* for it before the exception reaches the handler.
execute_command_on_timeout(tool, p) ==
    [proc |-> [p EXCEPT !.state = "killed"],
     ret |-> Returns(tool, "timeout", [seconds |-> 30, command |-> p.command])]

\* A handler that returns the timeout string and leaves the child running.
execute_interactive_command_on_timeout_NoKill(tool, p) ==
    [proc |-> p,
     ret |-> Returns(tool, "timeout", [seconds |-> 10, command |-> p.command])]

\* except subprocess.TimeoutExpired of execute_interactive_command:
\* process.kill(), then the return.
execute_interactive_command_on_timeout(tool, p) ==
    [proc |-> [p EXCEPT !.state = "killed"],
     ret |-> Returns(tool, "timeout", [seconds |-> 10, command |-> p.command])]

\* shlex.split(command)[0] if command.strip() else "": the exception, or the
\* command's first word.
CommandName(command) ==
    IF command = "" THEN Val("")
    ELSE IF command = "'" THEN Raise("ValueError")
    ELSE Val(command)

\* check_command_exists once `which` has ended.
check_command_exists_return(command_name, exit) ==
    IF ~IsUtf8(exit.stdout) \/ ~IsUtf8(exit.stderr)
    THEN Try("check_command_exists", Raise("UnicodeDecodeError"), "Exception")
    ELSE IF exit.returncode = 0
    THEN Returns("check_command_exists", "exists",
                 [name |-> command_name,
                  at |-> Strip(TranslateNewlines(exit.stdout))])
    ELSE Returns("check_command_exists", "not_found", command_name)

\* The environment table: a value for each variable that is set.
EnvNames == {"USER"}
EnvValues == {"u", "v"}
Unset == "(unset)"

\* os.environ[var_name] = value: refuses an empty name and a name with "=".
SetEnvError(var_name) ==
    IF var_name = "" THEN "OSError"
    ELSE IF var_name = "A=B" THEN "ValueError"
    ELSE ""

get_environment_variable(var_name) ==
    IF var_name \in EnvNames /\ env[var_name] # Unset
    THEN Returns("get_environment_variable", "value", env[var_name])
    ELSE Returns("get_environment_variable", "not_set", var_name)

set_environment_variable_run(var_name, value) ==
    IF SetEnvError(var_name) # "" THEN [exc |-> SetEnvError(var_name), env |-> env]
    ELSE [exc |-> "", env |-> [env EXCEPT ![var_name] = value]]

set_environment_variable(var_name, value) ==
    Try("set_environment_variable",
        [exc |-> set_environment_variable_run(var_name, value).exc,
         val |-> Returns("set_environment_variable", "ok", <<var_name, value>>)],
        "Exception")

list_environment_variables ==
    Returns("list_environment_variables", "list",
            {<<n, env[n]>> : n \in {m \in EnvNames : env[m] # Unset}})

\* get_current_user: USER and HOME from the environment, and os.getcwd().
get_current_user ==
    Try("get_current_user",
        [exc |-> GetCwd.exc,
         val |-> Returns("get_current_user", "user",
                     [username |-> env["USER"], cwd |-> GetCwd.val])],
        "Exception")

----------------------------------------------------------------------------
(* The tool calls as actions.  The framework issues one call at a time, a   *)
(* tool name with its arguments; the tool's action takes the issued call,   *)
(* runs the function and leaves its outcome in ret.                         *)

NoCall == [tool |-> "none", kind |-> "none", tag |-> "", val |-> <<>>]
Idle == [tool |-> "none"]
NoProc == [state |-> "none"]

Call(tool, args) == [tool |-> tool, args |-> args, stage |-> "issued"]

ReadMarkdownSections ==
    /\ call.tool = "read_markdown_sections"
    /\ ret' = read_markdown_sections(call.args.file_path,
                                     call.args.section_name)
    /\ call' = Idle
    /\ UNCHANGED <<fs, cwd, cwdGone, env, proc>>

ReadMarkdownPages ==
    /\ call.tool = "read_markdown_pages"
    /\ ret' = read_markdown_pages(call.args.file_path, call.args.page_num,
                                  call.args.lines_per_page)
    /\ call' = Idle
    /\ UNCHANGED <<fs, cwd, cwdGone, env, proc>>

ReadMarkdownLines ==
    /\ call.tool = "read_markdown_lines"
    /\ ret' = read_markdown_lines(call.args.file_path, call.args.start_line,
                                  call.args.end_line)
    /\ call' = Idle
    /\ UNCHANGED <<fs, cwd, cwdGone, env, proc>>

SearchMarkdownContent ==
    /\ call.tool = "search_markdown_content"
    /\ ret' = search_markdown_content(call.args.file_path,
                                      call.args.search_term,
                                      call.args.context_lines)
    /\ call' = Idle
    /\ UNCHANGED <<fs, cwd, cwdGone, env, proc>>

ReadFile ==
    /\ call.tool = "read_file"
    /\ ret' = read_file(call.args.file_path)
    /\ call' = Idle
    /\ UNCHANGED <<fs, cwd, cwdGone, env, proc>>

WriteFile ==
    /\ call.tool = "write_file"
    /\ ret' = write_file(call.args.file_path, call.args.content)
    /\ fs' = write_file_run(call.args.file_path, call.args.content).fs
    /\ call' = Idle
    /\ UNCHANGED <<cwd, cwdGone, env, proc>>

ListDirectory ==
    /\ call.tool = "list_directory"
    /\ ret' = list_directory(call.args.dir_path)
    /\ call' = Idle
    /\ UNCHANGED <<fs, cwd, cwdGone, env, proc>>

CreateDirectory ==
    /\ call.tool = "create_directory"
    /\ ret' = create_directory(call.args.dir_path)
    /\ fs' = MakeDirs(fs, call.args.dir_path, TRUE).fs
    /\ call' = Idle
    /\ UNCHANGED <<cwd, cwdGone, env, proc>>

DeleteFileOrPath ==
    /\ call.tool = "delete_file_or_path"
    /\ ret' = delete_file_or_path(call.args.path)
    /\ fs' = delete_file_or_path_run(call.args.path).fs
    /\ cwdGone' = delete_file_or_path_run(call.args.path).cwdGone
    /\ call' = Idle
    /\ UNCHANGED <<cwd, env, proc>>

CopyFileOrPath ==
    /\ call.tool = "copy_file_or_path"
    /\ ret' = copy_file_or_path(call.args.src, call.args.dst)
    /\ fs' = copy_file_or_path_run(call.args.src, call.args.dst).fs
    /\ call' = Idle
    /\ UNCHANGED <<cwd, cwdGone, env, proc>>

MoveFileOrPath ==
    /\ call.tool = "move_file_or_path"
    /\ ret' = move_file_or_path(call.args.src, call.args.dst)
    /\ fs' = move_file_or_path_run(call.args.src, call.args.dst).fs
    /\ call' = Idle
    /\ UNCHANGED <<cwd, cwdGone, env, proc>>

GetFileInfo ==
    /\ call.tool = "get_file_info"
    /\ ret' = get_file_info(call.args.file_path)
    /\ call' = Idle
    /\ UNCHANGED <<fs, cwd, cwdGone, env, proc>>

SearchFiles ==
    /\ call.tool = "search_files"
    /\ ret' = search_files(call.args.dir_path, call.args.pattern)
    /\ call' = Idle
    /\ UNCHANGED <<fs, cwd, cwdGone, env, proc>>

GetCurrentWorkingDirectory ==
    /\ call.tool = "get_current_working_directory"
    /\ ret' = get_current_working_directory
    /\ call' = Idle
    /\ UNCHANGED <<fs, cwd, cwdGone, env, proc>>

\* os.chdir(dir_path) puts the process in dir_path when it succeeds.
ChangeWorkingDirectory ==
    /\ call.tool = "change_working_directory"
    /\ ret' = change_working_directory(call.args.dir_path)
    /\ IF ChdirError(call.args.dir_path) = ""
       THEN cwd' = Resolve(call.args.dir_path) /\ cwdGone' = FALSE
       ELSE UNCHANGED <<cwd, cwdGone>>
    /\ call' = Idle
    /\ UNCHANGED <<fs, env, proc>>

GetEnvironmentVariable ==
    /\ call.tool = "get_environment_variable"
    /\ ret' = get_environment_variable(call.args.var_name)
    /\ call' = Idle
    /\ UNCHANGED <<fs, cwd, cwdGone, env, proc>>

SetEnvironmentVariable ==
    /\ call.tool = "set_environment_variable"
    /\ ret' = set_environment_variable(call.args.var_name, call.args.value)
    /\ env' = set_environment_variable_run(call.args.var_name,
                                           call.args.value).env
    /\ call' = Idle
    /\ UNCHANGED <<fs, cwd, cwdGone, proc>>

ListEnvironmentVariables ==
    /\ call.tool = "list_environment_variables"
    /\ ret' = list_environment_variables
    /\ call' = Idle
    /\ UNCHANGED <<fs, cwd, cwdGone, env, proc>>

GetCurrentUser ==
    /\ call.tool = "get_current_user"
    /\ ret' = get_current_user
    /\ call' = Idle
    /\ UNCHANGED <<fs, cwd, cwdGone, env, proc>>

(* The subprocess tools.  The call starts a child and waits for it; the      *)
(* child ends by itself within the wait, or the wait times out.  A child of  *)
(* the model writes nothing to the filesystem.                              *)

\* The call returns at once with the exception e of its try body handled.
Fails(tool, e) ==
    /\ ret' = Try(tool, Raise(e), "Exception")
    /\ call' = Idle
    /\ UNCHANGED proc

\* The call has started child p and waits for it.
Waits(p) ==
    /\ \E shell_forks \in BOOLEAN :
         proc' = [p EXCEPT !.shell_forks = shell_forks]
    /\ call' = [call EXCEPT !.stage = "waiting"]
    /\ UNCHANGED ret

\* subprocess.run(command, shell=True, capture_output=True, timeout=30)
ExecuteCommand ==
    /\ call.tool = "execute_command" /\ call.stage = "issued"
    /\ \E os_fails \in BOOLEAN :
         LET e == SpawnError(call.args.command, os_fails) IN
         IF e # "" THEN Fails("execute_command", e)
         ELSE Waits(Running("execute_command", call.args.command,
                            TRUE, CommandTimeout))
    /\ UNCHANGED <<fs, cwd, cwdGone, env>>

\* A version that enters working_dir with os.chdir before it runs the command.
ExecuteCommandWithCwd_Chdir ==
    /\ call.tool = "execute_command_with_cwd" /\ call.stage = "issued"
    /\ IF ~exists(call.args.working_dir) THEN
            /\ ret' = Returns("execute_command_with_cwd", "not_exist",
                              call.args.working_dir)
            /\ call' = Idle
            /\ UNCHANGED <<proc, cwd>>
       ELSE IF ~isdir(call.args.working_dir) THEN
            /\ ret' = Returns("execute_command_with_cwd", "not_dir",
                              call.args.working_dir)
            /\ call' = Idle
            /\ UNCHANGED <<proc, cwd>>
       ELSE /\ cwd' = Resolve(call.args.working_dir)
            /\ \E os_fails \in BOOLEAN :
               LET e == SpawnError(call.args.command, os_fails) IN
               IF e # "" THEN Fails("execute_command_with_cwd", e)
               ELSE Waits(Running("execute_command_with_cwd",
                                  call.args.command, TRUE, CommandTimeout))
    /\ UNCHANGED <<fs, cwdGone, env>>

\* A version that starts the command without looking at working_dir first.
ExecuteCommandWithCwd_Unchecked ==
    /\ call.tool = "execute_command_with_cwd" /\ call.stage = "issued"
    /\ \E os_fails \in BOOLEAN :
         LET e == SpawnError(call.args.command, os_fails) IN
         IF e # "" THEN Fails("execute_command_with_cwd", e)
         ELSE Waits(Running("execute_command_with_cwd", call.args.command,
                            TRUE, CommandTimeout))
    /\ UNCHANGED <<fs, cwd, cwdGone, env>>

\* The checks of working_dir, then subprocess.run(..., cwd=working_dir,
\* timeout=30).
ExecuteCommandWithCwd ==
    /\ call.tool = "execute_command_with_cwd" /\ call.stage = "issued"
    /\ IF ~exists(call.args.working_dir) THEN
            /\ ret' = Returns("execute_command_with_cwd", "not_exist",
                              call.args.working_dir)
            /\ call' = Idle
            /\ UNCHANGED proc
       ELSE IF ~isdir(call.args.working_dir) THEN
            /\ ret' = Returns("execute_command_with_cwd", "not_dir",
                              call.args.working_dir)
            /\ call' = Idle
            /\ UNCHANGED proc
       ELSE \E os_fails \in BOOLEAN :
            LET e == SpawnError(call.args.command, os_fails) IN
            IF e # "" THEN Fails("execute_command_with_cwd", e)
            ELSE Waits(Running("execute_command_with_cwd", call.args.command,
                               TRUE, CommandTimeout))
    /\ UNCHANGED <<fs, cwd, cwdGone, env>>

\* subprocess.Popen(command, shell=True, ...), then
\* process.communicate(input="", timeout=10)
ExecuteInteractiveCommand ==
    /\ call.tool = "execute_interactive_command" /\ call.stage = "issued"
    /\ \E os_fails \in BOOLEAN :
         LET e == SpawnError(call.args.command, os_fails) IN
         IF e # "" THEN Fails("execute_interactive_command", e)
         ELSE Waits(Running("execute_interactive_command", call.args.command,
                            TRUE, InteractiveTimeout))
    /\ UNCHANGED <<fs, cwd, cwdGone, env>>

\* The command's first word, then subprocess.run(f"which {command_name}",
\* shell=True, capture_output=True, text=True): no timeout.
CheckCommandExists ==
    /\ call.tool = "check_command_exists" /\ call.stage = "issued"
    /\ LET name == CommandName(call.args.command) IN
       IF name.exc # "" THEN Fails("check_command_exists", name.exc)
       ELSE IF name.val = "" THEN
            /\ ret' = Returns("check_command_exists", "no_command", "")
            /\ call' = Idle
            /\ UNCHANGED proc
       ELSE \E os_fails \in BOOLEAN :
            LET e == SpawnError(name.val, os_fails) IN
            IF e # "" THEN Fails("check_command_exists", e)
            ELSE Waits(Running("check_command_exists", name.val, FALSE, 0))
    /\ UNCHANGED <<fs, cwd, cwdGone, env>>

\* One second passes while a call waits for its child.
Tick ==
    /\ proc.state = "running"
    /\ proc.timed /\ proc.elapsed < proc.timeout
    /\ proc' = [proc EXCEPT !.elapsed = proc.elapsed + 1]
    /\ UNCHANGED <<fs, cwd, cwdGone, env, call, ret>>

\* The child ends by itself within the wait and the call returns what the
\* child wrote and its exit code.
ChildExits ==
    /\ proc.state = "running"
    /\ proc.timed => proc.elapsed < proc.timeout
    /\ \E exit \in Exits :
         /\ proc' = [state |-> "exited", tool |-> proc.tool,
                     command |-> proc.command, exit |-> exit]
         /\ ret' = IF proc.tool = "check_command_exists"
                   THEN check_command_exists_return(proc.command, exit)
                   ELSE ExitReturn(proc.tool, call.args, exit)
    /\ call' = Idle
    /\ UNCHANGED <<fs, cwd, cwdGone, env>>

\* The wait has timed out with the child still running.
TimesOut ==
    /\ proc.state = "running"
    /\ proc.timed /\ proc.elapsed = proc.timeout
    /\ LET out == IF proc.tool = "execute_interactive_command"
                  THEN execute_interactive_command_on_timeout(proc.tool, proc)
                  ELSE execute_command_on_timeout(proc.tool, proc)
       IN  proc' = out.proc /\ ret' = out.ret
    /\ call' = Idle
    /\ UNCHANGED <<fs, cwd, cwdGone, env>>

----------------------------------------------------------------------------
(* Markdown texts for the section scan.                                    *)

MaxLines == 3

\* Lines of a markdown text: headers of levels 1, 2 and 6 (two names differ
\* only in case, one has blanks around it), a header of blanks only, a line of
\* seven '#', a '#' with no blank after it, a body line and an empty line.
LinePool ==
    { <<"#", " ", "A">>,
      <<"#", "#", " ", "a", " ">>,
      <<"#", "#", "#", "#", "#", "#", " ", "a", "B">>,
      <<"#", "#", "#", "#", "#", "#", "#", " ", "A">>,
      <<"#", "A">>,
      <<"#", " ", " ">>,
      <<"a">>,
      <<>> }

LineSeqs == UNION {[1..n -> LinePool] : n \in 0..MaxLines}

\* The texts: the lines joined by "\n", with or without a last "\n".
SectionTexts ==
    {JoinLines(ls) : ls \in LineSeqs}
        \cup {JoinLines(ls) \o <<LF>> : ls \in LineSeqs}

SectionNames == {<<>>, <<"a">>, <<"B">>, <<"A", "b">>, <<"b", "a">>}

MdFile == AbsArg(<<"f">>)

\* A filesystem holding one file, /f, and nothing else.
OneFile(bytes) ==
    [a \in AbsPaths |->
        IF a = <<>> THEN DirNode
        ELSE IF a = <<"f">> THEN FileNode(bytes)
        ELSE NoNode]

InitProcess ==
    /\ cwd = <<>>
    /\ cwdGone = FALSE
    /\ env = [n \in EnvNames |-> Unset]
    /\ proc = NoProc
    /\ ret = NoCall

SectionCalls ==
    {Call("read_markdown_sections", [file_path |-> MdFile, section_name |-> n]) :
        n \in {None} \cup {Some(n) : n \in SectionNames}}

\* One call of read_markdown_sections on one text.
InitSections ==
    /\ fs \in {OneFile(t) : t \in SectionTexts}
    /\ call \in SectionCalls
    /\ InitProcess

SpecSections == InitSections /\ [][ReadMarkdownSections]_vars

----------------------------------------------------------------------------
(* Texts for paging: files of 0 to MaxTotalLines lines.                    *)

MaxTotalLines == 25
MaxLinesPerPage == 10

\* A text of n lines, the last one with or without its "\n"; neighbouring
\* lines differ.
PageText(n, final_newline) ==
    JoinLines([i \in 1..n |->
                  CASE i % 3 = 1 -> <<"a">>
                    [] i % 3 = 2 -> <<"#", " ", "A">>
                    [] OTHER -> <<"B">>])
        \o (IF final_newline /\ n > 0 THEN <<LF>> ELSE <<>>)

PageNums == {NoneInt} \cup {Some(n) : n \in (0 - 1)..(MaxTotalLines + 1)}
PageSizes == (0 - 1)..MaxLinesPerPage

PageCalls ==
    {Call("read_markdown_pages",
          [file_path |-> MdFile, page_num |-> n, lines_per_page |-> d]) :
        n \in PageNums, d \in PageSizes}

\* One call of read_markdown_pages on one text.
InitPages ==
    /\ fs \in {OneFile(PageText(n, nl)) :
                   n \in 0..MaxTotalLines, nl \in BOOLEAN}
    /\ call \in PageCalls
    /\ InitProcess

SpecPages == InitPages /\ [][ReadMarkdownPages]_vars

----------------------------------------------------------------------------
(* Properties of read_markdown_sections, stated on the outcome of a call   *)
(* and the text of /f it was made from.                                    *)

\* The lines of /f, as the section scan sees them.
MdLines == SplitLines(TranslateNewlines(fs[<<"f">>].data))

\* The call read the file and scanned it.
Scanned ==
    /\ ret.tool = "read_markdown_sections"
    /\ ret.tag \in {"list", "section", "not_found"}

\* A header line, in the words of the contract: 1 to 6 leading '#', then
\* whitespace, then text.
IsHeaderLine(line) ==
    \E k \in 1..6 :
        /\ Len(line) >= k + 2
        /\ \A j \in 1..k : line[j] = "#"
        /\ line[k + 1] = " "

\* The positions of the header lines of ls, in order.
HeaderPositions(ls) ==
    SelectSeq([i \in 1..Len(ls) |-> i], LAMBDA i : IsHeaderLine(ls[i]))

\* The last line of the section that starts at the k-th header.
SectionEnd(ls, k) ==
    LET hp == HeaderPositions(ls) IN
    IF k < Len(hp) THEN hp[k + 1] - 1 ELSE Len(ls)

\* C2: the line number recorded for each section is strictly greater than the
\* line number recorded for the section before it, also in a text where the
\* same header line occurs more than once.
C2_LineNumbersIncrease ==
    Scanned =>
        \A i \in 2..Len(ret.sections) :
            ret.sections[i].line > ret.sections[i - 1].line

\* C3: when the text has lines before its first header, those lines are kept
\* as an unnamed preamble entry, the first of the section sequence, and the
\* listing reports the preamble.
C3_PreambleRetained ==
    LET hp == HeaderPositions(MdLines) IN
    (Scanned /\ ret.tag = "list" /\ hp # <<>> /\ hp[1] > 1) =>
        /\ ret.sections # <<>>
        /\ ret.sections[1].name = <<>>
        /\ ret.sections[1].text = JoinLines(SubSeq(MdLines, 1, hp[1] - 1))
        /\ ret.val.preamble

\* C4: every header line (1 to 6 '#', whitespace, text) starts a section, no
\* other line does, and the section's text is its header line followed by all
\* lines up to, not including, the next header line or up to the end of file.
C4_SectionsSplitAtHeaders ==
    LET hp == HeaderPositions(MdLines) IN
    Scanned =>
        /\ Len(ret.sections) = Len(hp)
        /\ \A k \in 1..Len(hp) :
               ret.sections[k].text
                   = JoinLines(SubSeq(MdLines, hp[k], SectionEnd(MdLines, k)))

\* C4's case: "# A\nbody\n# B\n" gives two sections, lines 1-2 and line 3.
C4_Witness ==
    /\ Scanned
    /\ fs[<<"f">>].data
         = <<"#", " ", "A", LF, "a", LF, "#", "#", " ", "a", " ", LF>>
    /\ Len(ret.sections) = 2
    /\ ret.sections[1].text = <<"#", " ", "A", LF, "a">>
    /\ ret.sections[2].text = <<"#", "#", " ", "a", " ">>

\* section_name is in the section's name, both compared in lower case.
NameContains(sec, section_name) ==
    \E i \in 0..(Len(sec.name) - Len(section_name)) :
        \A j \in 1..Len(section_name) :
            LowerChar(sec.name[i + j]) = LowerChar(section_name[j])

\* The call looked section_name up among the sections whose positions are in
\* `among`: it returned the first of them whose name contains section_name,
\* and "not found" exactly when none of them does.
LookupReturnsFirst(among) ==
    LET hits == {i \in among : NameContains(ret.sections[i], ret.section_name.v)}
    IN  IF hits = {} THEN ret.tag = "not_found"
        ELSE /\ ret.tag = "section"
             /\ \E i \in hits :
                    /\ \A j \in hits : i <= j
                    /\ ret.val = ret.sections[i]

\* C5 as stated: the lookup returns the first section, in document order,
\* whose name contains section_name case-insensitively, and the "not found"
\* string exactly when no section name contains it.
C5_FirstContainingName ==
    (Scanned /\ ret.section_name.some) =>
        LookupReturnsFirst(1..Len(ret.sections))

\* C5 as amended: the same, among the sections whose name is not empty (a
\* header whose text is blank gives a section the lookup passes over).
C5_FirstContainingNonEmptyName ==
    (Scanned /\ ret.section_name.some) =>
        LookupReturnsFirst({i \in 1..Len(ret.sections) :
                                ret.sections[i].name # <<>>})

\* C5's case: two sections match "a" in different case, the first is returned.
C5_Witness ==
    /\ Scanned
    /\ ret.section_name = Some(<<"a">>)
    /\ ret.tag = "section"
    /\ ret.val.name = <<"A">>
    /\ Len(ret.sections) >= 2
    /\ ret.sections[2].name = <<"a">>

----------------------------------------------------------------------------
(* Properties of read_markdown_pages.                                      *)

\* The lines of /f, as paging reads them (each with its line break).
FileLines == ReadLines(TranslateNewlines(fs[<<"f">>].data))

\* The call read the file and computed the page count.
Paged ==
    /\ ret.tool = "read_markdown_pages"
    /\ ret.tag \in {"meta", "page", "out_of_range"}

\* ceil(n / d) for d >= 1: the least k with k * d >= n.
IsCeilDiv(k, n, d) ==
    /\ k >= 0
    /\ k * d >= n
    /\ k = 0 \/ (k - 1) * d < n

\* C6: for lines_per_page >= 1 the page count computed and reported is
\* ceil(total_lines / lines_per_page), 0 for an empty file.
C6_TotalPagesIsCeiling ==
    (Paged /\ ret.lines_per_page >= 1) =>
        IsCeilDiv(ret.val.total_pages, Len(FileLines), ret.lines_per_page)

\* C6's cases: a last page that is not full, and the empty file.
C6_Witness ==
    /\ Paged
    /\ ret.tag = "meta"
    /\ ret.lines_per_page = 10
    /\ Len(FileLines) = 25
    /\ ret.val.total_pages = 3
    /\ Len(ret.val.pages) = 3

\* The lines numbered lo to hi of the file, each with its number.
LabelledLines(lo, hi) ==
    [i \in 1..(hi - lo + 1) |-> [num |-> lo + i - 1, text |-> FileLines[lo + i - 1]]]

RECURSIVE ConcatPages(_, _, _)
\* The lines of pages p to last, at page size d, one after the other.
ConcatPages(p, last, d) ==
    IF p > last THEN <<>>
    ELSE read_markdown_pages(MdFile, Some(p), d).val.lines
            \o ConcatPages(p + 1, last, d)

\* C7: for lines_per_page >= 1 and page_num in 1..total_pages the page is
\* exactly the lines (page_num-1)*lines_per_page+1 to
\* min(page_num*lines_per_page, total_lines), each with its 1-based number;
\* and the pages 1..total_pages one after the other are the file's lines,
\* each once and in order.
C7_PageIsItsLines ==
    (Paged /\ ret.lines_per_page >= 1) =>
        /\ ret.tag = "page" =>
              ret.val.lines
                = LabelledLines((ret.page_num.v - 1) * ret.lines_per_page + 1,
                                Min(ret.page_num.v * ret.lines_per_page,
                                    Len(FileLines)))
        /\ ConcatPages(1, ret.val.total_pages, ret.lines_per_page)
               = LabelledLines(1, Len(FileLines))

\* C7's case: page 2 of a 25-line file at 10 lines per page is lines 11-20 of
\* 3 pages.
C7_Witness ==
    /\ Paged
    /\ ret.tag = "page"
    /\ Len(FileLines) = 25
    /\ ret.lines_per_page = 10
    /\ ret.page_num = Some(2)
    /\ ret.val.total_pages = 3
    /\ Len(ret.val.lines) = 10
    /\ ret.val.lines[1].num = 11
    /\ ret.val.lines[10].num = 20

----------------------------------------------------------------------------
(* The tools of the three lists: one call of any of them, by the framework, *)
(* on any filesystem of the model.                                         *)

PathArgs ==
    {AbsArg(<<>>), AbsArg(<<"d">>), AbsArg(<<"d", "f">>), AbsArg(<<"f">>),
     RelArg(<<"f">>), EmptyPath}

\* The markdown file of the filesystem.
Markdown == <<"#", " ", "A", LF, "a", LF>>

\* A path argument names a place of the model's filesystem (or is "").
Fits(p) == p = EmptyPath \/ (~p.abs /\ cwdGone) \/ Resolve(p) \in AbsPaths

\* Where src and what is under it may be put by a copy or move to dst: at dst,
\* and in dst when dst is a directory.  All of it is a place of the model.
TargetsFit(src, dst) ==
    IF ~exists(src) \/ ~Reachable(dst) THEN TRUE
    ELSE
       LET a == Resolve(src)
           roots == {Resolve(dst)} \cup
                    (IF isdir(dst) THEN {Resolve(join(dst, basename(src)))}
                     ELSE {})
       IN  \A b \in AbsPaths : \A t \in roots :
               IsPrefix(a, b) /\ fs[b].kind # "none" => t \o Below(a, b) \in AbsPaths

\* The calls the model issues: on places of the model, never removing, copying
\* or moving the root directory, never moving the directory the process stands
\* in or one above it.
Admissible(c) ==
    CASE c.tool \in {"copy_file_or_path", "move_file_or_path"} ->
            /\ Fits(c.args.src) /\ Fits(c.args.dst)
            /\ exists(c.args.src) => Resolve(c.args.src) # <<>>
            /\ TargetsFit(c.args.src, c.args.dst)
            /\ c.tool = "move_file_or_path" /\ exists(c.args.src)
                   => ~IsPrefix(Resolve(c.args.src), cwd)
      [] c.tool = "delete_file_or_path" ->
            /\ Fits(c.args.path)
            /\ exists(c.args.path) => Resolve(c.args.path) # <<>>
      [] c.tool \in {"list_directory", "create_directory", "search_files",
                     "change_working_directory"} -> Fits(c.args.dir_path)
      [] c.tool = "execute_command_with_cwd" -> Fits(c.args.working_dir)
      [] c.tool \in {"read_file", "write_file", "get_file_info",
                     "read_markdown_lines", "read_markdown_pages",
                     "read_markdown_sections", "search_markdown_content"} ->
            Fits(c.args.file_path)
      [] OTHER -> TRUE

\* The calls of the model: every tool, on every path argument.
ToolCalls ==
    {Call("read_file", [file_path |-> p]) : p \in PathArgs}
    \cup {Call("write_file", [file_path |-> p, content |-> c]) :
            p \in PathArgs, c \in {<<>>, <<"a", LF>>}}
    \cup {Call("list_directory", [dir_path |-> p]) : p \in PathArgs}
    \cup {Call("create_directory", [dir_path |-> p]) : p \in PathArgs}
    \cup {Call("delete_file_or_path", [path |-> p]) : p \in PathArgs}
    \cup {Call("copy_file_or_path", [src |-> p, dst |-> q]) : p, q \in PathArgs}
    \cup {Call("move_file_or_path", [src |-> p, dst |-> q]) : p, q \in PathArgs}
    \cup {Call("get_file_info", [file_path |-> p]) : p \in PathArgs}
    \cup {Call("search_files", [dir_path |-> p, pattern |-> g]) :
            p \in PathArgs, g \in {"*", "f", ""}}
    \cup {Call("get_current_working_directory", <<>>)}
    \cup {Call("change_working_directory", [dir_path |-> p]) : p \in PathArgs}
    \cup {Call(t, [command |-> c]) :
        t \in {"execute_command", "execute_interactive_command",
               "check_command_exists"}, c \in Commands}
    \cup {Call("execute_command_with_cwd", [command |-> c, working_dir |-> p]) :
            c \in Commands, p \in PathArgs}
    \cup {Call("get_environment_variable", [var_name |-> n]) :
            n \in EnvNames \cup {"", "A=B"}}
    \cup {Call("set_environment_variable", [var_name |-> n, value |-> v]) :
            n \in EnvNames \cup {"", "A=B"}, v \in EnvValues}
    \cup {Call("list_environment_variables", <<>>), Call("get_current_user", <<>>)}
    \cup {Call("read_markdown_lines",
          [file_path |-> p, start_line |-> a, end_line |-> b]) :
        p \in PathArgs, a \in {0 - 1, 0, 1, 3},
        b \in {NoneInt, Some(0 - 1), Some(0), Some(2)}}
    \cup {Call("read_markdown_pages",
               [file_path |-> p, page_num |-> n, lines_per_page |-> k]) :
            p \in PathArgs, n \in {NoneInt, Some(0), Some(1)}, k \in {0, 1, 50}}
    \cup {Call("read_markdown_sections", [file_path |-> p, section_name |-> n]) :
            p \in PathArgs, n \in {None, Some(<<"a">>)}}
    \cup {Call("search_markdown_content",
               [file_path |-> p, search_term |-> t, context_lines |-> k]) :
            p \in PathArgs, t \in {<<>>, <<"A">>, <<"x">>}, k \in {0, 3}}

\* The filesystems a call finds: /d missing, a file or a directory, with /d/f
\* missing, the markdown file or a directory in it; /f missing, a file that
\* is not UTF-8, an empty file, a text file or a directory.
Filesystems ==
    {[a \in AbsPaths |->
        CASE a = <<>> -> DirNode
          [] a = <<"d">> -> d
          [] a = <<"d", "f">> -> IF d = DirNode THEN df ELSE NoNode
          [] a = <<"f">> -> f] :
     d \in {NoNode, FileNode(<<"a", LF>>), DirNode},
     df \in {NoNode, FileNode(Markdown), DirNode},
     f \in {NoNode, FileNode(<<BAD>>), FileNode(<<>>), FileNode(<<"a", LF>>),
            DirNode}}

\* One call of one tool, on a filesystem, by a process that stands in / or in
\* /d (which may have been removed under it) with USER set or not.
InitTools ==
    /\ fs \in Filesystems
    /\ \/ cwd = <<>> /\ cwdGone = FALSE
       \/ cwd = <<"d">> /\ cwdGone = FALSE /\ fs[<<"d">>] = DirNode
       \/ cwd = <<"d">> /\ cwdGone = TRUE /\ fs[<<"d">>] = NoNode
    /\ env \in [EnvNames -> {Unset} \cup EnvValues]
    /\ proc = NoProc
    /\ call \in {c \in ToolCalls : Admissible(c)}
    /\ ret = NoCall

NextTools ==
    \/ ReadFile
    \/ WriteFile
    \/ ListDirectory
    \/ CreateDirectory
    \/ DeleteFileOrPath
    \/ CopyFileOrPath
    \/ MoveFileOrPath
    \/ GetFileInfo
    \/ SearchFiles
    \/ GetCurrentWorkingDirectory
    \/ ChangeWorkingDirectory
    \/ ExecuteCommand
    \/ ExecuteCommandWithCwd
    \/ ExecuteInteractiveCommand
    \/ CheckCommandExists
    \/ Tick
    \/ ChildExits
    \/ TimesOut
    \/ GetEnvironmentVariable
    \/ SetEnvironmentVariable
    \/ ListEnvironmentVariables
    \/ GetCurrentUser
    \/ ReadMarkdownLines
    \/ ReadMarkdownPages
    \/ ReadMarkdownSections
    \/ SearchMarkdownContent

SpecTools == InitTools /\ [][NextTools]_vars

----------------------------------------------------------------------------
(* A session: the framework calls tool after tool in one process, each call *)
(* issued when the one before has returned.                                *)

\* The framework issues call c when no call is in progress and it has taken
\* the last outcome.
Issue(c) ==
    /\ call = Idle
    /\ ret = NoCall
    /\ call' = c
    /\ UNCHANGED <<fs, cwd, cwdGone, env, proc, ret>>

\* The framework takes the outcome of the call that has returned.
Collect ==
    /\ call = Idle
    /\ ret # NoCall
    /\ ret' = NoCall
    /\ proc' = NoProc
    /\ UNCHANGED <<fs, cwd, cwdGone, env, call>>

Here == RelArg(<<"f">>)

SessionCalls ==
    {Call("read_file", [file_path |-> Here]),
     Call("write_file", [file_path |-> AbsArg(<<"d", "f">>), content |-> <<"a", LF>>]),
     Call("list_directory", [dir_path |-> AbsArg(<<"d">>)]),
     Call("create_directory", [dir_path |-> AbsArg(<<"d">>)]),
     Call("delete_file_or_path", [path |-> Here]),
     Call("delete_file_or_path", [path |-> AbsArg(<<"d">>)]),
     Call("copy_file_or_path", [src |-> AbsArg(<<"d", "f">>), dst |-> AbsArg(<<"f">>)]),
     Call("move_file_or_path", [src |-> AbsArg(<<"f">>), dst |-> AbsArg(<<"d">>)]),
     Call("get_file_info", [file_path |-> Here]),
     Call("search_files", [dir_path |-> AbsArg(<<>>), pattern |-> "f"]),
     Call("get_current_working_directory", <<>>),
     Call("change_working_directory", [dir_path |-> AbsArg(<<"d">>)]),
     Call("change_working_directory", [dir_path |-> AbsArg(<<>>)]),
     Call("change_working_directory", [dir_path |-> Here]),
     Call("execute_command", [command |-> "ls"]),
     Call("execute_command_with_cwd",
          [command |-> "ls", working_dir |-> AbsArg(<<"d">>)]),
     Call("execute_interactive_command", [command |-> "ls"]),
     Call("check_command_exists", [command |-> "ls"]),
     Call("get_environment_variable", [var_name |-> "USER"]),
     Call("set_environment_variable", [var_name |-> "USER", value |-> "u"]),
     Call("set_environment_variable", [var_name |-> "A=B", value |-> "u"]),
     Call("list_environment_variables", <<>>),
     Call("get_current_user", <<>>),
     Call("read_markdown_lines",
          [file_path |-> Here, start_line |-> 1, end_line |-> NoneInt]),
     Call("read_markdown_pages",
          [file_path |-> Here, page_num |-> NoneInt, lines_per_page |-> 50]),
     Call("read_markdown_sections", [file_path |-> Here, section_name |-> None]),
     Call("search_markdown_content",
          [file_path |-> Here, search_term |-> <<"A">>, context_lines |-> 0])}

\* The process starts in / with USER unset; /d holds the markdown file /d/f.
InitSession ==
    /\ fs = [a \in AbsPaths |->
               IF a \in {<<>>, <<"d">>} THEN DirNode
               ELSE IF a = <<"d", "f">> THEN FileNode(Markdown)
               ELSE FileNode(<<BAD>>)]
    /\ cwd = <<>>
    /\ cwdGone = FALSE
    /\ env = [n \in EnvNames |-> Unset]
    /\ proc = NoProc
    /\ call = Idle
    /\ ret = NoCall

NextSession ==
    \/ \E c \in {x \in SessionCalls : Admissible(x)} : Issue(c)
    \/ Collect
    \/ NextTools

SpecSession == InitSession /\ [][NextSession]_vars

----------------------------------------------------------------------------
(* A round trip: read_file(path), then write_file(path, <what it returned>) *)

MaxBytes == 3

\* What the file holds: text, line breaks of both kinds, bytes that are not
\* UTF-8.
ByteSeqs == UNION {[1..n -> {"a", LF, CR, BAD}] : n \in 0..MaxBytes}

\* The paths the file is read by: a bare file name (the process stands in the
\* file's directory /d), and an absolute path (the file is /f).
RoundTripPaths == {Here, AbsArg(<<"f">>)}

InitRoundTrip ==
    /\ \E bytes \in ByteSeqs, p \in RoundTripPaths :
         /\ fs = [a \in AbsPaths |->
                    IF a \in {<<>>, <<"d">>} THEN DirNode
                    ELSE IF (p = Here) = (a = <<"d", "f">>) THEN FileNode(bytes)
                    ELSE NoNode]
         /\ call = Call("read_file", [file_path |-> p])
    /\ cwd = <<"d">>
    /\ cwdGone = FALSE
    /\ env = [n \in EnvNames |-> Unset]
    /\ proc = NoProc
    /\ ret = NoCall

\* The caller hands what read_file returned to write_file, with the path it
\* has read.
WriteBack ==
    /\ call = Idle
    /\ ret.tool = "read_file"
    /\ \E p \in RoundTripPaths :
         LET \* the str read_file has returned: the text, or
             \* f"Error reading file: {str(e)}"
             str == IF ret.tag = "content" THEN ret.val
                    ELSE <<"Error reading file: ", ret.val>>
         IN  /\ isfile(p)
             /\ call' = Call("write_file", [file_path |-> p, content |-> str])
    /\ UNCHANGED <<fs, cwd, cwdGone, env, proc, ret>>

SpecRoundTrip ==
    InitRoundTrip /\ [][ReadFile \/ WriteBack \/ WriteFile]_vars

----------------------------------------------------------------------------
(* Properties of the tools as a whole.                                     *)

\* C1: whatever the tool, its arguments, the filesystem and the process (a
\* missing path, a path of the wrong type, an empty file, numbers out of
\* range, lines_per_page = 0, a subprocess that cannot be started), a call
\* that has returned has returned a str: no exception has left the tool.
C1_EveryCallReturnsAString == ret.kind # "raise"

\* The division by lines_per_page = 0 has come back as an error string.
C1_Witness ==
    /\ ret.tool = "read_markdown_pages"
    /\ ret.kind = "str"
    /\ ret.tag = "error"
    /\ ret.val = "ZeroDivisionError"

\* The wait of a subprocess tool has reached its limit with the child running:
\* 30 seconds for execute_command and execute_command_with_cwd, 10 seconds
\* for execute_interactive_command.
StillRunningAtLimit ==
    /\ proc.state = "running"
    /\ \/ /\ proc.tool \in {"execute_command", "execute_command_with_cwd"}
          /\ proc.elapsed = 30
       \/ /\ proc.tool = "execute_interactive_command"
          /\ proc.elapsed = 10

\* C8: when the child is still running at the limit, the call's next step
\* kills the child and returns the timeout string that names the command;
\* no child is killed before the limit, and a call returns with a timeout
\* string or with an 'Exit code' result only with its child killed or ended
\* by itself, respectively.
C8_TimeoutKillsThenReturns ==
    [][/\ StillRunningAtLimit =>
            /\ proc'.state = "killed"
            /\ ret' = Returns(proc.tool, "timeout",
                   [seconds |-> IF proc.tool = "execute_interactive_command"
                                THEN 10 ELSE 30,
                    command |-> call.args.command])
       /\ proc.state = "running" /\ proc'.state = "killed" => StillRunningAtLimit
       /\ ret'.tag = "timeout" => proc'.state = "killed"
       /\ ret'.tag = "exit" => proc'.state = "exited"
      ]_vars

\* execute_interactive_command has returned after 10 seconds, its child (the
\* shell) killed; the command the shell had started goes on running.
C8_Witness ==
    /\ CommandSurvives(proc)
    /\ proc.tool = "execute_interactive_command"
    /\ proc.elapsed = 10
    /\ ret.tool = "execute_interactive_command"
    /\ ret.tag = "timeout"
    /\ ret.val = [seconds |-> 10, command |-> "ls"]
    /\ call = Idle

PlainText(bytes) == IsUtf8(bytes) /\ \A i \in 1..Len(bytes) : bytes[i] # CR

\* C10, as stated: writing back what read_file returned leaves the content
\* of the file unchanged.
C10_RoundTripKeepsContent ==
    [][call.tool = "write_file" =>
            fs'[Resolve(call.args.file_path)] = fs[Resolve(call.args.file_path)]
      ]_vars

\* C10: writing back what read_file returned leaves the content of a file
\* of plain text unchanged.
C10_RoundTripKeepsPlainText ==
    [][call.tool = "write_file"
       /\ PlainText(fs[Resolve(call.args.file_path)].data) =>
            fs'[Resolve(call.args.file_path)] = fs[Resolve(call.args.file_path)]
      ]_vars

\* The text "a\na" has been read and written back to /f.
C10_Witness ==
    /\ ret.tool = "write_file"
    /\ ret.tag = "ok"
    /\ ret.val = AbsArg(<<"f">>)
    /\ fs[<<"f">>] = FileNode(<<"a", LF, "a">>)

----------------------------------------------------------------------------
(* What the subprocess tools return.                                       *)

\* C11: when the command of execute_command has ended by itself within the
\* timeout, whatever its exit status, the returned string ends with
\* "Exit code: <the return code>" and holds "STDERR:" followed by the captured
\* standard error whenever the command wrote to standard error.
C11_ExitCodeAndStderrReported ==
    (proc.state = "exited" /\ proc.tool = "execute_command") =>
        /\ ret.kind = "str"
        /\ ret.tag = "exit"
        /\ ret.val.output[Len(ret.val.output)] =
               [lit |-> "\n\nExit code: ",
                arg |-> IF proc.exit.returncode = 0 THEN <<"0">> ELSE <<"2">>]
        /\ proc.exit.stderr # <<>> =>
               \E i \in 1..Len(ret.val.output) :
                   ret.val.output[i] =
                       [lit |-> "\nSTDERR:\n",
                        arg |-> TranslateNewlines(proc.exit.stderr)]

----------------------------------------------------------------------------
(* How the tools word their returns.                                       *)

PaperTools ==
    {"read_markdown_lines", "read_markdown_pages", "read_markdown_sections",
     "search_markdown_content"}

\* Every return worded as an error.
Opening_Uniform(r) == "Error"

\* The first word of the returned string where the code fixes it ("'" where
\* the string opens with a quoted path); "" for the returns that open with
\* data: the content of a file, the working directory, NAME=value, the output
\* of a command.
Opening(r) ==
    CASE r.tag = "error" -> "Error"
      [] r.tag = "timeout" ->
            IF r.tool = "execute_interactive_command" THEN "Interactive"
            ELSE "Command"
      [] r.tag = "not_exist" ->
            CASE r.tool \in PaperTools -> "Error:"
              [] r.tool \in {"list_directory", "search_files"} -> "Directory"
              [] r.tool \in {"delete_file_or_path", "get_file_info"} -> "Path"
              [] r.tool \in {"copy_file_or_path", "move_file_or_path"} -> "Source"
              [] OTHER -> "Working"
      [] r.tag = "not_dir" -> "'"
      [] r.tag \in {"beyond", "out_of_range"} -> "Error:"
      [] r.tag = "not_found" ->
            IF r.tool = "read_markdown_sections" THEN "Error:" ELSE "Command"
      [] r.tag \in {"ok", "deleted_dir", "deleted_file", "copied_dir",
                    "copied_file", "moved", "changed"} -> "Successfully"
      [] r.tag \in {"no_match", "no_command"} -> "No"
      [] r.tag = "empty" -> "Directory"
      [] r.tag = "exists" -> "Command"
      [] r.tag = "not_set" -> "Environment"
      [] r.tag = "contents" -> "Contents"
      [] r.tag = "info" -> "Information"
      [] r.tag = "user" -> "Current"
      [] r.tag = "matches" ->
            IF r.tool = "search_files" THEN "Files" ELSE "==="
      [] r.tag = "list" ->
            IF r.tool = "list_environment_variables" THEN "Environment"
            ELSE "==="
      [] r.tag \in {"meta", "page", "section", "lines"} -> "==="
      [] OTHER -> ""

\* The failure outcomes: a caught exception, a failed check of the arguments
\* and a timeout of the child.
Failure(r) ==
    \/ r.tag \in {"error", "timeout", "not_exist", "not_dir", "beyond",
                  "out_of_range"}
    \/ r.tag = "not_found" /\ r.tool = "read_markdown_sections"

BeginsWithError(r) == Opening(r) \in {"Error", "Error:"}

\* C12, as stated: every failure outcome of every tool is returned as a string
\* that begins with "Error".
C12_EveryFailureBeginsWithError ==
    (ret.kind = "str" /\ Failure(ret)) => BeginsWithError(ret)

\* C12: every failure outcome is returned as a string; it begins with "Error"
\* exactly when it reports a caught exception or is a failure of a paper tool.
\* The failed checks of the file and bash tools and the timeouts are worded
\* otherwise.
C12_CaughtExceptionsBeginWithError ==
    (ret.kind # "none" /\ Failure(ret)) =>
        /\ ret.kind = "str"
        /\ BeginsWithError(ret) <=>
               (ret.tag = "error" \/ ret.tool \in PaperTools)

\* read_file has caught the error of a missing file and returns
\* "Error reading file: ...".
C12_Witness ==
    /\ ret.tool = "read_file"
    /\ ret.tag = "error"
    /\ ret.val = "FileNotFoundError"
    /\ BeginsWithError(ret)

----------------------------------------------------------------------------
(* What the file tools leave behind.                                       *)

\* A place write_file can write to: the path names no directory, leads
\* through no file, and its working directory (for a relative path) is there.
Writable(p) ==
    /\ Reachable(p)
    /\ ~ThroughFile(p)
    /\ ~isdir(p)

\* C13: for every path in a writable place, whether its parent directories
\* exist already, do not exist yet, or the path is a bare file name,
\* write_file(path, content) makes the missing parent directories and reports
\* success, and a read_file(path) that follows returns exactly content.
C13_WriteThenReadReturnsContent ==
    [][\A p \in PathArgs : \A c \in {<<>>, <<"a", LF>>} :
         (/\ call.tool = "write_file"
          /\ call.args.file_path = p
          /\ call.args.content = c
          /\ Writable(p)) =>
            /\ ret'.tag = "ok"
            /\ \A n \in 1..Len(Resolve(p)) :
                   fs'[SubSeq(Resolve(p), 1, n - 1)].kind = "dir"
            /\ read_file(p)' = Returns("read_file", "content", c)
      ]_vars

----------------------------------------------------------------------------
(* Searching a markdown file.                                              *)

\* Line `line` contains `term` when both are compared without regard to case.
ContainsFolded(line, term) ==
    \E i \in 0..(Len(line) - Len(term)) :
        \A j \in 1..Len(term) : LowerChar(line[i + j]) = LowerChar(term[j])

\* C14: on a file of text, search_markdown_content returns "No matches found
\* for ..." exactly when no line of the file contains the search term, case
\* disregarded; otherwise it returns the matches, at least one: an absent
\* term gives neither an empty result nor an error, in an empty file too.
C14_NoMatchesExactlyWhenAbsent ==
    [][\A p \in PathArgs : \A t \in {<<>>, <<"A">>, <<"x">>} :
         (/\ call.tool = "search_markdown_content"
          /\ call.args.file_path = p
          /\ call.args.search_term = t
          /\ isfile(p)
          /\ IsUtf8(NodeAt(p).data)) =>
            LET lines == ReadLines(TranslateNewlines(NodeAt(p).data))
                absent == \A i \in 1..Len(lines) : ~ContainsFolded(lines[i], t)
            IN  /\ ret'.kind = "str"
                /\ ret'.tag \in {"no_match", "matches"}
                /\ ret'.tag = "no_match" <=> absent
                /\ ret'.tag = "no_match" => ret'.val = t
                /\ ret'.tag = "matches" => ret'.val # <<>>
      ]_vars

\* The empty file /f, the only file there is, has been searched for "x".
C14_Witness ==
    /\ ret.tool = "search_markdown_content"
    /\ ret.tag = "no_match"
    /\ ret.val = <<"x">>
    /\ fs[<<"f">>] = FileNode(<<>>)
    /\ fs[<<"d">>].kind = "none"

----------------------------------------------------------------------------
(* The checks a tool makes before it acts.                                 *)

\* The path a tool checks before it acts, for the tools that check one.
CheckedPath(c) ==
    CASE c.tool = "delete_file_or_path" -> c.args.path
      [] c.tool \in {"copy_file_or_path", "move_file_or_path"} -> c.args.src
      [] c.tool \in {"list_directory", "search_files"} -> c.args.dir_path
      [] OTHER -> c.args.working_dir

\* The call's check of its path fails: the source path is missing, or the
\* directory to list, to search or to run a command in is missing or is no
\* directory.
PreconditionFails(c) ==
    /\ c.tool \in {"delete_file_or_path", "copy_file_or_path",
                   "move_file_or_path", "list_directory", "search_files",
                   "execute_command_with_cwd"}
    /\ c.stage = "issued"
    /\ \/ ~exists(CheckedPath(c))
       \/ /\ c.tool \in {"list_directory", "search_files",
                         "execute_command_with_cwd"}
          /\ ~isdir(CheckedPath(c))

\* C15: a call whose check of its path fails returns its failure string at
\* once: no child process is started and the filesystem, the working
\* directory and the environment are as they were before the call.
C15_FailedCheckChangesNothing ==
    [][PreconditionFails(call) =>
          /\ ret'.kind = "str"
          /\ ret'.tool = call.tool
          /\ ret'.tag = (IF exists(CheckedPath(call)) THEN "not_dir"
                         ELSE "not_exist")
          /\ ret'.val = CheckedPath(call)
          /\ call' = Idle
          /\ UNCHANGED <<fs, cwd, cwdGone, env, proc>>
      ]_vars

\* execute_command_with_cwd has been given the file /f as working_dir: the
\* call has returned and there is no child.
C15_Witness ==
    /\ ret.tool = "execute_command_with_cwd"
    /\ ret.tag = "not_dir"
    /\ ret.val = AbsArg(<<"f">>)
    /\ proc = NoProc
    /\ fs[<<"f">>].kind = "file"

----------------------------------------------------------------------------
(* Deleting, copying and moving.                                           *)

\* C16: when delete_file_or_path(path) reports success, path does not exist
\* any more, nor does anything under it; every other entry of the filesystem
\* is as it was, as are the working directory and the environment; and a
\* second delete_file_or_path(path) returns the "does not exist" string.
C16_DeleteRemovesPathOnly ==
    [][\A p \in PathArgs :
         (/\ call.tool = "delete_file_or_path"
          /\ call.args.path = p
          /\ ret'.tag \in {"deleted_dir", "deleted_file"}) =>
            /\ ~(exists(p))'
            /\ \A b \in AbsPaths :
                   IF IsPrefix(Resolve(p), b) THEN fs'[b] = NoNode
                   ELSE fs'[b] = fs[b]
            /\ UNCHANGED <<cwd, env>>
            /\ (delete_file_or_path(p))' =
                   Returns("delete_file_or_path", "not_exist", p)
      ]_vars

\* The directory /d has been deleted; the file /f beside it is still there.
C16_Witness ==
    /\ ret.tool = "delete_file_or_path"
    /\ ret.tag = "deleted_dir"
    /\ ret.val = AbsArg(<<"d">>)
    /\ fs[<<"d">>] = NoNode
    /\ fs[<<"d", "f">>] = NoNode
    /\ fs[<<"f">>].kind = "file"

\* What filesystem f holds at absolute path a: the entry and everything under
\* it, each with its place relative to a.
Held(f, a) ==
    {<<Below(a, b), f[b]>> :
        b \in {x \in AbsPaths : IsPrefix(a, x) /\ f[x].kind # "none"}}

\* Where a copy or a move of src to dst lands: in dst under the name of src
\* when dst is a directory other than src, at dst otherwise.
Landing(src, dst) ==
    IF isdir(dst) /\ Resolve(dst) # Resolve(src) THEN join(dst, basename(src))
    ELSE dst

\* Entry b of f after a copy or a move has landed at `land`: as before, but
\* for the missing directories on the way to `land`, which have been made.
ElseAsBefore(f, b, land) ==
    IF IsPrefix(b, land) /\ f[b] = NoNode THEN DirNode ELSE f[b]

\* C17, as stated: after a copy that reports success, src exists with its
\* content unchanged and dst holds the same content; after a move that
\* reports success, src does not exist and dst holds what src held.
C17_DstHoldsWhatSrcHeld ==
    [][\A s \in PathArgs : \A d \in PathArgs :
        /\ (/\ call.tool = "copy_file_or_path"
            /\ call.args.src = s /\ call.args.dst = d
            /\ ret'.tag \in {"copied_dir", "copied_file"}) =>
               /\ Held(fs', Resolve(s)) = Held(fs, Resolve(s))
               /\ Held(fs', Resolve(d)) = Held(fs, Resolve(s))
        /\ (/\ call.tool = "move_file_or_path"
            /\ call.args.src = s /\ call.args.dst = d
            /\ ret'.tag = "moved") =>
               /\ ~(exists(s))'
               /\ Held(fs', Resolve(d)) = Held(fs, Resolve(s))
      ]_vars

\* C17: after a copy that reports success, the place the copy landed at holds
\* what src holds and everything else, src included when dst is not under
\* it, is unchanged; after a move that reports success, the place the move
\* landed at holds what src held, src does not exist unless it is that place,
\* and everything else is unchanged.  Missing directories on the way to the
\* landing place may have been made.
C17_LandingHoldsWhatSrcHeld ==
    [][\A s \in PathArgs : \A d \in PathArgs :
        /\ (/\ call.tool = "copy_file_or_path"
            /\ call.args.src = s /\ call.args.dst = d
            /\ ret'.tag \in {"copied_dir", "copied_file"}) =>
               LET land == Resolve(Landing(s, d)) IN
               /\ Held(fs', land) = Held(fs, Resolve(s))
               /\ \A b \in AbsPaths : ~IsPrefix(land, b) =>
                      fs'[b] = ElseAsBefore(fs, b, land)
               /\ ~IsPrefix(Resolve(s), land) =>
                      Held(fs', Resolve(s)) = Held(fs, Resolve(s))
        /\ (/\ call.tool = "move_file_or_path"
            /\ call.args.src = s /\ call.args.dst = d
            /\ ret'.tag = "moved") =>
               LET land == Resolve(Landing(s, d)) IN
               /\ Held(fs', land) = Held(fs, Resolve(s))
               /\ land # Resolve(s) => Held(fs', Resolve(s)) = {}
               /\ \A b \in AbsPaths :
                      ~IsPrefix(land, b) /\ ~IsPrefix(Resolve(s), b) =>
                          fs'[b] = ElseAsBefore(fs, b, land)
      ]_vars

\* The file /f has been copied to the directory /d: the copy is /d/f.
C17_Witness ==
    /\ ret.tool = "copy_file_or_path"
    /\ ret.tag = "copied_file"
    /\ ret.val = <<AbsArg(<<"f">>), AbsArg(<<"d">>)>>
    /\ fs[<<"f">>].kind = "file"
    /\ fs[<<"d">>].kind = "dir"
    /\ fs[<<"d", "f">>] = fs[<<"f">>]

----------------------------------------------------------------------------
(* Pages and lines out of range.                                           *)

\* C18, as stated: a page_num outside 1..total_pages gives the "out of range"
\* string, never a page; for an empty file total_pages is 0 and every
\* page_num gives the "out of range" string.
C18_OutsidePagesIsOutOfRange ==
    (Paged /\ ret.page_num.some) =>
        /\ ret.tag = "page" =>
               ret.page_num.v \in 1..ret.val.total_pages
        /\ Len(FileLines) = 0 =>
               ret.tag = "out_of_range" /\ ret.val.total_pages = 0

\* What holds of C18 for lines_per_page >= 1: read_markdown_pages returns the
\* "out of range" string, which holds the page count and no line of the file,
\* exactly when page_num is outside 1..ceil(total_lines / lines_per_page); for
\* an empty file that is for every page_num, the count being 0.
OutOfRangeForPositiveSize ==
    (Paged /\ ret.page_num.some /\ ret.lines_per_page >= 1) =>
        LET n == Len(FileLines)
            outside == \/ ret.page_num.v < 1
                       \/ (ret.page_num.v - 1) * ret.lines_per_page >= n
        IN  /\ ret.tag = "out_of_range" <=> outside
            /\ ret.tag = "out_of_range" =>
                   /\ DOMAIN ret.val = {"total_pages"}
                   /\ IsCeilDiv(ret.val.total_pages, n, ret.lines_per_page)
            /\ n = 0 => ret.tag = "out_of_range" /\ ret.val.total_pages = 0

\* C19: for every start_line and every end_line (or none), the lines of the
\* file that read_markdown_lines returns are exactly the lines at positions
\* max(1, start_line) to min(end_line, total_lines) (to total_lines without an
\* end_line), each labelled with its 1-based position in the file.
C19_LinesLabelledWithTheirPositions ==
    [][\A p \in PathArgs : \A a \in {0 - 1, 0, 1, 3} :
       \A b \in {NoneInt, Some(0 - 1), Some(0), Some(2)} :
         (/\ call.tool = "read_markdown_lines"
          /\ call.args.file_path = p
          /\ call.args.start_line = a
          /\ call.args.end_line = b
          /\ isfile(p)
          /\ IsUtf8(NodeAt(p).data)) =>
            LET lines == ReadLines(TranslateNewlines(NodeAt(p).data))
                lo == Max(1, a)
                hi == IF b.some THEN Min(b.v, Len(lines)) ELSE Len(lines)
                included == IF ret'.tag = "lines" THEN ret'.val.lines
                            ELSE <<>>
            IN  included = [i \in 1..(hi - lo + 1) |->
                               [num |-> lo + i - 1, text |-> lines[lo + i - 1]]]
      ]_vars

----------------------------------------------------------------------------
(* Calls that wait for a child.                                            *)

\* The tools run to their end, time passes while a call waits with a timeout,
\* and the handler of an expired timeout runs.  Nothing makes a child exit.
SpecToolsLive ==
    /\ SpecTools
    /\ WF_vars(ExecuteCommand)
    /\ WF_vars(ExecuteCommandWithCwd)
    /\ WF_vars(ExecuteInteractiveCommand)
    /\ WF_vars(CheckCommandExists)
    /\ WF_vars(Tick)
    /\ WF_vars(TimesOut)

\* C20: every call of a tool that starts a child returns to its caller in
\* the end, whether or not the child ever exits by itself.
C20_SubprocessToolsReturn ==
    (call.tool \in {"execute_command", "execute_command_with_cwd",
                    "execute_interactive_command", "check_command_exists"})
        ~> (call = Idle)

\* What holds of C20: the calls of the three tools that wait with a timeout
\* return in the end.
TimedToolsReturn ==
    (call.tool \in {"execute_command", "execute_command_with_cwd",
                    "execute_interactive_command"})
        ~> (call = Idle)

----------------------------------------------------------------------------
(* Searching a markdown file: the matches and their context.               *)

MaxSearchLines == 4

\* One call of search_markdown_content on /f, a text of up to MaxSearchLines
\* lines, the last one with or without its "\n"; context_lines from -2 to 2.
InitSearch ==
    /\ fs \in {OneFile(JoinLines(ls) \o nl) :
                   ls \in UNION {[1..n -> {<<"a">>, <<"A", "b">>, <<"b">>}] :
                                    n \in 0..MaxSearchLines},
                   nl \in {<<>>, <<LF>>}}
    /\ call \in {Call("search_markdown_content",
                      [file_path |-> MdFile, search_term |-> t,
                       context_lines |-> k]) :
                    t \in {<<>>, <<"a">>, <<"x">>}, k \in (0 - 2)..2}
    /\ InitProcess

SpecSearch == InitSearch /\ [][SearchMarkdownContent]_vars

\* The positions of the lines of /f that contain term t, case disregarded.
Hits(t) == {m \in 1..Len(FileLines) : ContainsFolded(FileLines[m], t)}

\* The lines lo to hi of /f, each with its number, line m marked.
MarkedLines(lo, hi, m) ==
    [j \in 1..(hi - lo + 1) |->
        [num |-> lo + j - 1, marked |-> lo + j - 1 = m,
         text |-> FileLines[lo + j - 1]]]

\* The matches search_markdown_content returns are one per line of /f that
\* contains t, in ascending order of the lines, each with the lines from
\* max(1, m - k) to min(total_lines, m + k) as its context, numbered as in the
\* file and with line m alone marked.
MatchesAsClaimed(r, t, k) ==
    LET found == IF r.tag = "matches" THEN r.val ELSE <<>> IN
    /\ Len(found) = Cardinality(Hits(t))
    /\ \A i \in 1..Len(found) :
         /\ found[i].line \in Hits(t)
         /\ i < Len(found) => found[i].line < found[i + 1].line
         /\ found[i].context =
                MarkedLines(Max(1, found[i].line - k),
                            Min(Len(FileLines), found[i].line + k),
                            found[i].line)

\* C21: search_markdown_content reports one match per line that contains the
\* search term, case disregarded, in ascending line order; the context of the
\* match at line m is the lines max(1, m - context_lines) to
\* min(total_lines, m + context_lines), each with its 1-based number and line m
\* alone marked ">>>".
C21_MatchesAndTheirContext ==
    [][\A t \in {<<>>, <<"a">>, <<"x">>} : \A k \in (0 - 2)..2 :
         (/\ call.tool = "search_markdown_content"
          /\ call.args.search_term = t
          /\ call.args.context_lines = k) =>
            MatchesAsClaimed(ret', t, k)
      ]_vars

\* What holds of C21: the same for context_lines >= 0.
MatchesAndContextForNonNegative ==
    [][\A t \in {<<>>, <<"a">>, <<"x">>} : \A k \in 0..2 :
         (/\ call.tool = "search_markdown_content"
          /\ call.args.search_term = t
          /\ call.args.context_lines = k) =>
            MatchesAsClaimed(ret', t, k)
      ]_vars

----------------------------------------------------------------------------
(* The sections of a text, taken together.                                 *)

\* The section texts joined in list order with "\n" are the lines of /f from
\* its first header line to its end, so that every such line is in the text
\* of exactly one section.
SectionsCoverFromFirstHeader ==
    LET hp == HeaderPositions(MdLines) IN
    Scanned =>
        JoinLines([k \in 1..Len(ret.sections) |-> ret.sections[k].text])
            = IF hp = <<>> THEN <<>>
              ELSE JoinLines(SubSeq(MdLines, hp[1], Len(MdLines)))

\* The line number recorded for the k-th section is the position of the k-th
\* header line of /f.
SectionLinesAreHeaderPositions ==
    LET hp == HeaderPositions(MdLines) IN
    Scanned =>
        /\ Len(ret.sections) = Len(hp)
        /\ \A k \in 1..Len(hp) : ret.sections[k].line = hp[k]

\* C22: in read_markdown_sections every line from the first header line to the
\* end of the file belongs to the text of exactly one section, the section
\* texts joined in list order with newlines equal that part of the file, and
\* the line number recorded for each section is the 1-based position of the
\* header line that starts it.
C22_SectionsPartitionWithTrueLines ==
    SectionsCoverFromFirstHeader /\ SectionLinesAreHeaderPositions

====
